---- MODULE Spec2Model ----
(***************************************************************************)
(* Down-To-Play: proximity filtering and ranking of players, games,        *)
(* courts and fields (playerStore, gameStore, courtStore, fieldRepository) *)
(* on top of the Haversine distance of locationStore / fieldRepository.    *)
(*                                                                         *)
(* JavaScript numbers are modelled as records [k, v]: k is the kind        *)
(* ("num", "nan", "inf", "ninf", "null", "undef") and v the value of a     *)
(* finite number.  Coordinates are whole degrees, distances whole          *)
(* kilometres (locationStore) or metres (fieldRepository); angles and      *)
(* trigonometric values are fixed-point numbers with Scale units per 1.    *)
(***************************************************************************)
EXTENDS Integers, Sequences, FiniteSets, TLC

(* ---------------------------------------------------------------------- *)
(* Bounds of the model                                                     *)
(* ---------------------------------------------------------------------- *)
MaxRows == 3

\* the calls of signInWithGoogle in a behaviour
MaxSignIns == 3

\* the handleSessionChange calls and the signOut calls in flight
MaxSessionChanges == 2
MaxSignOuts == 1

\* the add_field intents stored in a behaviour
MaxIntents == 2

\* the operations of the game store in flight together
MaxStoreOps == 2

\* the change events not yet delivered, the fetchGameById requests in flight
MaxEvents == 2
MaxFetches == 2

(* ---------------------------------------------------------------------- *)
(* JavaScript values                                                       *)
(* ---------------------------------------------------------------------- *)
Num(n) == [k |-> "num", v |-> n]
NaN == [k |-> "nan", v |-> 0]
PosInf == [k |-> "inf", v |-> 0]
NegInf == [k |-> "ninf", v |-> 0]
Null == [k |-> "null", v |-> 0]
Undefined == [k |-> "undef", v |-> 0]

IsFinite(x) == x.k = "num"

\* ToBoolean of a number, null or undefined: 0, NaN, null and undefined are falsy
Truthy(x) == (x.k = "num" /\ x.v # 0) \/ x.k \in {"inf", "ninf"}

\* a || b
JsOr(a, b) == IF Truthy(a) THEN a ELSE b

\* a <= b on numbers: false as soon as one side is NaN
JsLeq(a, b) ==
  CASE a.k = "nan" \/ b.k = "nan" -> FALSE
    [] a.k = "ninf" \/ b.k = "inf" -> TRUE
    [] a.k = "inf" \/ b.k = "ninf" -> FALSE
    [] OTHER -> a.v <= b.v

\* a - b on numbers
JsSub(a, b) ==
  CASE a.k = "nan" \/ b.k = "nan" -> NaN
    [] a.k = "inf" -> IF b.k = "inf" THEN NaN ELSE PosInf
    [] a.k = "ninf" -> IF b.k = "ninf" THEN NaN ELSE NegInf
    [] b.k = "inf" -> NegInf
    [] b.k = "ninf" -> PosInf
    [] OTHER -> Num(a.v - b.v)

(* ---------------------------------------------------------------------- *)
(* Fixed-point arithmetic standing for Math.sin, Math.cos, Math.sqrt and   *)
(* Math.atan2.  Rounding is towards zero, so that, as in IEEE arithmetic,  *)
(* op(-x) = -op(x) for the odd operations.                                 *)
(* ---------------------------------------------------------------------- *)
Scale == 10000
PiScaled == 31416
HalfPiScaled == 15708

Div(a, b) == IF a >= 0 THEN a \div b ELSE -((-a) \div b)
Mul(a, b) == Div(a * b, Scale)

RECURSIVE IsqrtIter(_, _, _)
IsqrtIter(n, lo, hi) ==
  IF lo >= hi THEN lo
  ELSE LET mid == (lo + hi + 1) \div 2
       IN IF mid * mid <= n THEN IsqrtIter(n, mid, hi) ELSE IsqrtIter(n, lo, mid - 1)

\* floor of the square root of n, 0 <= n <= 4 * Scale * Scale
Isqrt(n) == IsqrtIter(n, 0, 2 * Scale)

\* sine of an angle in [-pi/2, pi/2], Taylor series in Horner form
SinSeries(x) ==
  LET x2 == Mul(x, x)
      t5 == Scale - Div(x2, 110)
      t4 == Scale - Div(Mul(x2, t5), 72)
      t3 == Scale - Div(Mul(x2, t4), 42)
      t2 == Scale - Div(Mul(x2, t3), 20)
      t1 == Scale - Div(Mul(x2, t2), 6)
  IN Mul(x, t1)

\* Math.sin on [-pi, pi]
Sin(x) ==
  IF x > HalfPiScaled THEN SinSeries(PiScaled - x)
  ELSE IF x < -HalfPiScaled THEN SinSeries(-PiScaled - x)
  ELSE SinSeries(x)

\* Math.cos on [-pi/2, pi/2]
Cos(x) ==
  LET x2 == Mul(x, x)
      t5 == Scale - Div(x2, 90)
      t4 == Scale - Div(Mul(x2, t5), 56)
      t3 == Scale - Div(Mul(x2, t4), 30)
      t2 == Scale - Div(Mul(x2, t3), 12)
  IN Scale - Div(Mul(x2, t2), 2)

\* arctangent of t in [0, 1]: one half-angle reduction, then the series
Atan01(t) ==
  LET h == Isqrt(Scale * Scale + t * t)
      u == Div(t * Scale, Scale + h)
      u2 == Mul(u, u)
      s4 == Div(Scale, 7) - Div(u2, 9)
      s3 == Div(Scale, 5) - Mul(u2, s4)
      s2 == Div(Scale, 3) - Mul(u2, s3)
      s1 == Scale - Mul(u2, s2)
  IN 2 * Mul(u, s1)

\* Math.atan2(y, x) for y >= 0, x >= 0 (both are square roots here)
Atan2(y, x) ==
  IF y = 0 THEN 0
  ELSE IF y <= x THEN Atan01(Div(y * Scale, x))
  ELSE HalfPiScaled - Atan01(Div(x * Scale, y))

(* ---------------------------------------------------------------------- *)
(* Haversine distance                                                      *)
(* ---------------------------------------------------------------------- *)
EarthRadiusKm == 6371

\* ToNumber of a coordinate operand: null is 0, undefined is NaN
ToNumber(x) == IF x.k = "null" THEN Num(0) ELSE IF x.k = "undef" THEN NaN ELSE x

\* deg * (Math.PI / 180)
toRad(deg) == Div(deg * PiScaled, 180)

\* the central angle 2 * atan2(sqrt(a), sqrt(1 - a)); a is kept with
\* Scale * Scale units per 1; NanAngle when 1 - a is negative (Math.sqrt of a
\* negative number is NaN)
NanAngle == -1

CentralAngle(a) ==
  IF Scale * Scale - a < 0 THEN NanAngle
  ELSE 2 * Atan2(Isqrt(a), Isqrt(Scale * Scale - a))

\* The results of Math.sin, Math.cos and of the products are rounded, and
\* which of the two numbers next to the exact value comes out depends on the
\* build ("implementation-approximated" in ECMA-262): towards zero ("down")
\* or away from it ("up").  Exact results (0, 1, -1) are not rounded.
Roundings == {"down", "up"}

MathRound(v, rounding) ==
  IF rounding = "up" /\ v # 0 /\ v < Scale /\ v > -Scale
  THEN IF v > 0 THEN v + 1 ELSE v - 1
  ELSE v

MulRounded(a, b, rounding) ==
  IF rounding = "up" /\ (a * b) % Scale # 0
  THEN IF a * b > 0 THEN Mul(a, b) + 1 ELSE Mul(a, b) - 1
  ELSE Mul(a, b)

\* a = sin(dLat/2)^2 + cos(lat1) * cos(lat2) * sin(dLon/2)^2, on degrees
HaversineA(rounding, lat1, lon1, lat2, lon2) ==
  LET dLat == toRad(lat2 - lat1)
      dLon == toRad(lon2 - lon1)
      sLat == MathRound(Sin(Div(dLat, 2)), rounding)
      sLon == MathRound(Sin(Div(dLon, 2)), rounding)
      cos1 == MathRound(Cos(toRad(lat1)), rounding)
      cos2 == MathRound(Cos(toRad(lat2)), rounding)
  IN sLat * sLat
     + MulRounded(MulRounded(cos1, cos2, rounding), sLon, rounding) * sLon

\* locationStore.calculateDistance on finite degrees, in kilometres
HaversineKm(rounding, lat1, lon1, lat2, lon2) ==
  LET c == CentralAngle(HaversineA(rounding, lat1, lon1, lat2, lon2))
  IN IF c = NanAngle THEN NaN ELSE Num(Div(EarthRadiusKm * c, Scale))

\* locationStore.calculateDistance: a non-finite operand makes Math.sin or
\* Math.cos return NaN, which propagates to the result
calculateDistance(rounding, lat1, lon1, lat2, lon2) ==
  LET a1 == ToNumber(lat1)
      o1 == ToNumber(lon1)
      a2 == ToNumber(lat2)
      o2 == ToNumber(lon2)
  IN IF IsFinite(a1) /\ IsFinite(o1) /\ IsFinite(a2) /\ IsFinite(o2)
     THEN HaversineKm(rounding, a1.v, o1.v, a2.v, o2.v)
     ELSE NaN

\* FieldRepository.calculateDistance on finite degrees, in metres
HaversineMeters(rounding, from, to) ==
  LET c == CentralAngle(HaversineA(rounding, from.latitude, from.longitude,
                                   to.latitude, to.longitude))
  IN \* R = 6371e3 metres: 6371000 * c / Scale
     IF c = NanAngle THEN NaN ELSE Num(Div(EarthRadiusKm * c, 10))

\* FieldRepository.calculateDistance
FieldCalculateDistance(rounding, from, to) ==
  LET a1 == ToNumber(from.latitude)
      o1 == ToNumber(from.longitude)
      a2 == ToNumber(to.latitude)
      o2 == ToNumber(to.longitude)
  IN IF IsFinite(a1) /\ IsFinite(o1) /\ IsFinite(a2) /\ IsFinite(o2)
     THEN HaversineMeters(rounding, [latitude |-> a1.v, longitude |-> o1.v],
                          [latitude |-> a2.v, longitude |-> o2.v])
     ELSE NaN

(* ---------------------------------------------------------------------- *)
(* Rows, objects and the inputs of the model                               *)
(* ---------------------------------------------------------------------- *)
NoLocation == [present |-> FALSE, latitude |-> Undefined, longitude |-> Undefined]
Location(lat, lon) == [present |-> TRUE, latitude |-> Num(lat), longitude |-> Num(lon)]

\* game.court: null, or the joined court row with its coordinate
NoCourt == [present |-> FALSE, latitude |-> Undefined, longitude |-> Undefined]
CourtAt(lat, lon) == [present |-> TRUE, latitude |-> lat, longitude |-> lon]

\* a row as it comes out of the response; it has no distance property
Row(lat, lon, court) ==
  [latitude |-> lat, longitude |-> lon, court |-> court, distance |-> Undefined]

\* the device positions expo-location may report
RefLocations == {Location(40, -4)}

\* a device position on the equator, and profiles at it and one degree north
EquatorLocation == Location(0, -4)

EquatorRows ==
  { Row(Num(0), Num(-4), NoCourt),
    Row(Num(1), Num(-4), NoCourt) }

\* profiles.latitude / longitude are nullable columns: no coordinate, on
\* the equator, at the reference, one degree north of it, NaN, Infinity
ProfileRows ==
  { Row(Null, Null, NoCourt),
    Row(Num(0), Num(-4), NoCourt),
    Row(Num(40), Num(-4), NoCourt),
    Row(Num(41), Num(-4), NoCourt),
    Row(NaN, Num(-4), NoCourt),
    Row(PosInf, Num(-4), NoCourt) }

\* courts.latitude / longitude and fields.latitude / longitude are NOT NULL
CourtRows ==
  { Row(Num(0), Num(-4), NoCourt),
    Row(Num(40), Num(-4), NoCourt),
    Row(Num(41), Num(-4), NoCourt),
    Row(NaN, Num(-4), NoCourt),
    Row(PosInf, Num(-4), NoCourt) }

FieldRows == CourtRows

\* games carry an optional court and nullable coordinates of their own
GameRows ==
  { Row(Null, Null, NoCourt),
    Row(Num(41), Num(-4), CourtAt(Num(40), Num(-4))),
    Row(Num(41), Num(-4), NoCourt),
    Row(Null, Null, CourtAt(Num(0), Num(-4))),
    Row(NaN, Num(-4), NoCourt),
    Row(Null, Null, CourtAt(PosInf, Num(-4))) }

\* the radiusKm arguments; Undefined selects the default parameter value
RadiiKm == {Undefined, Num(-1), Num(0), Num(150)}
RadiiMeters == {Undefined, Num(-1), Num(0), Num(150000)}

DefaultPlayerRadiusKm == 10
DefaultGameRadiusKm == 10
DefaultCourtRadiusKm == 15
DefaultFieldRadiusMeters == 5000

\* radiusKm = <default>
DefaultParam(arg, default) == IF arg = Undefined THEN Num(default) ELSE arg

Tables == {"profiles", "courts", "games", "fields"}

SeqsUpTo(S, n) == UNION {[1..m -> S] : m \in 0..n}

\* what a query on a table yields: rows, an error, or nothing while the
\* request stays pending
OkResponse(rows) == [kind |-> "ok", rows |-> rows]
ErrorResponse == [kind |-> "error", rows |-> <<>>]
PendingResponse == [kind |-> "pending", rows |-> <<>>]

RowsOf(t) ==
  CASE t = "profiles" -> ProfileRows
    [] t = "courts" -> CourtRows
    [] t = "games" -> GameRows
    [] OTHER -> FieldRows

\* an object created from row i of the response
WithId(rows) == [i \in 1..Len(rows) |-> [id |-> i] @@ rows[i]]

\* the coordinate values of the rows above, and of the reference locations
CoordValues ==
  {Null, Undefined, NaN, PosInf, Num(0), Num(1), Num(-4), Num(40), Num(41)}

RefCoordValues ==
  {l.latitude : l \in RefLocations \cup {EquatorLocation}}
    \cup {l.longitude : l \in RefLocations \cup {EquatorLocation}}

\* calculateDistance and FieldRepository.calculateDistance, tabulated once
\* over the coordinates of the model, for the build that rounds towards zero
\* (no row of the model is antipodal to a reference location, where the
\* rounding decides between a number and NaN)
DistanceKmTable ==
  [lat1 \in RefCoordValues |-> [lon1 \in RefCoordValues |->
    [lat2 \in CoordValues |-> [lon2 \in CoordValues |->
       calculateDistance("down", lat1, lon1, lat2, lon2)]]]]

DistanceMetersTable ==
  [lat1 \in RefCoordValues |-> [lon1 \in RefCoordValues |->
    [lat2 \in CoordValues |-> [lon2 \in CoordValues |->
       FieldCalculateDistance("down", [latitude |-> lat1, longitude |-> lon1],
                              [latitude |-> lat2, longitude |-> lon2])]]]]

DistanceKm(lat1, lon1, lat2, lon2) == DistanceKmTable[lat1][lon1][lat2][lon2]

DistanceMeters(from, to) ==
  DistanceMetersTable[from.latitude][from.longitude][to.latitude][to.longitude]

(* ---------------------------------------------------------------------- *)
(* Array.prototype.sort                                                    *)
(* ---------------------------------------------------------------------- *)
\* the sign the sort reads off a comparator result; NaN counts as +0
CmpSign(r) ==
  CASE r.k = "num" -> IF r.v < 0 THEN -1 ELSE IF r.v > 0 THEN 1 ELSE 0
    [] r.k = "inf" -> 1
    [] r.k = "ninf" -> -1
    [] OTHER -> 0

\* a comparator with the two early returns swapped: players without a
\* distance would go first
ComparePlayersUndefinedFirst(a, b) ==
  IF a.distance = Undefined THEN Num(-1)
  ELSE IF b.distance = Undefined THEN Num(1)
  ELSE JsSub(a.distance, b.distance)

\* playerStore: (a, b) => ... players without distance go last
ComparePlayers(a, b) ==
  IF a.distance = Undefined THEN Num(1)
  ELSE IF b.distance = Undefined THEN Num(-1)
  ELSE JsSub(a.distance, b.distance)

\* a comparator with the operands swapped: it would sort descending
CompareCourtsDescending(a, b) == JsSub(ToNumber(b.distance), ToNumber(a.distance))

\* courtStore: (a, b) => a.distance - b.distance
CompareCourts(a, b) == JsSub(ToNumber(a.distance), ToNumber(b.distance))

Compare(kind, a, b) ==
  IF kind = "players" THEN ComparePlayers(a, b) ELSE CompareCourts(a, b)

\* The engines of the builds run a stable insertion/merge sort; they differ
\* in the argument order of the comparator call.  "pivotFirst" asks
\* comparefn(pivot, element) < 0 (binary insertion of TimSort, merge step),
\* "elementFirst" asks comparefn(element, pivot) > 0 (classic insertion
\* sort).  For a consistent comparator both give the same order; for an
\* inconsistent one the order is implementation-defined (ECMA-262, 23.1.3.30).
Engines == {"pivotFirst", "elementFirst"}

\* does the pivot x have to move in front of element e
MovesBefore(kind, eng, h, x, e) ==
  IF eng = "pivotFirst"
  THEN CmpSign(Compare(kind, h[x], h[e])) < 0
  ELSE CmpSign(Compare(kind, h[e], h[x])) > 0

RECURSIVE ScanLeft(_, _, _, _, _, _)
ScanLeft(kind, eng, h, sorted, x, j) ==
  IF j = 0 THEN 0
  ELSE IF MovesBefore(kind, eng, h, x, sorted[j])
       THEN ScanLeft(kind, eng, h, sorted, x, j - 1)
       ELSE j

InsertAt(sorted, x, j) ==
  SubSeq(sorted, 1, j) \o <<x>> \o SubSeq(sorted, j + 1, Len(sorted))

\* one step of the sort: the pivot x is inserted into the sorted prefix
InsertSorted(kind, eng, h, sorted, x) ==
  InsertAt(sorted, x, ScanLeft(kind, eng, h, sorted, x, Len(sorted)))

RECURSIVE SortPrefix(_, _, _, _, _)
SortPrefix(kind, eng, h, arr, n) ==
  IF n = 0 THEN <<>>
  ELSE InsertSorted(kind, eng, h, SortPrefix(kind, eng, h, arr, n - 1), arr[n])

\* arr.sort(comparefn) on an array of references into the heap h
ArraySort(kind, eng, h, arr) == SortPrefix(kind, eng, h, arr, Len(arr))

(* ---------------------------------------------------------------------- *)
(* The callbacks of the four call sites                                    *)
(* ---------------------------------------------------------------------- *)
\* playerStore map callback: the distance a player is decorated with
PlayerDistance(player, location) ==
  IF Truthy(player.latitude) /\ Truthy(player.longitude)
  THEN DistanceKm(location.latitude, location.longitude,
                         player.latitude, player.longitude)
  ELSE Undefined

\* a filter callback that forgets the radius
PlayerKeepNoRadius(player, radiusKm) ==
  IF player.distance = Undefined THEN TRUE
  ELSE IsFinite(player.distance)

\* playerStore filter callback
PlayerKeep(player, radiusKm) ==
  IF player.distance = Undefined THEN TRUE
  ELSE JsLeq(player.distance, radiusKm)

\* courtStore map callback
CourtDistance(court, location) ==
  DistanceKm(location.latitude, location.longitude,
                    court.latitude, court.longitude)

\* courtStore filter callback
CourtKeep(court, radiusKm) == JsLeq(ToNumber(court.distance), radiusKm)

\* gameStore: game.court?.latitude || game.latitude
GameLat(game) ==
  JsOr(IF game.court.present THEN game.court.latitude ELSE Undefined,
       game.latitude)

GameLon(game) ==
  JsOr(IF game.court.present THEN game.court.longitude ELSE Undefined,
       game.longitude)

\* the distance the gameStore filter callback computes; Undefined when it
\* returns before computing one
GameDistance(game, location) ==
  IF ~Truthy(GameLat(game)) \/ ~Truthy(GameLon(game)) THEN Undefined
  ELSE DistanceKm(location.latitude, location.longitude,
                         GameLat(game), GameLon(game))

\* gameStore filter callback
GameKeep(game, location, radiusKm) ==
  IF GameDistance(game, location) = Undefined THEN TRUE
  ELSE JsLeq(GameDistance(game, location), radiusKm)

\* the distance the fieldRepository filter callback computes
FieldDistance(row, coordinates) ==
  DistanceMeters(coordinates,
                         [latitude |-> row.latitude, longitude |-> row.longitude])

\* fieldRepository filter callback
FieldKeep(row, coordinates, radiusMeters) ==
  JsLeq(FieldDistance(row, coordinates), radiusMeters)

\* { ...row, distance }: a new object
Decorated(row, distance) == [row EXCEPT !.distance = distance]

\* FieldRepository.mapRowToField: a new object
mapRowToField(row) == [row EXCEPT !.distance = Undefined]

(* ---------------------------------------------------------------------- *)
(* State                                                                   *)
(* ---------------------------------------------------------------------- *)
VARIABLES
  engine,           \* the sort of the JavaScript engine of the build
  db,               \* table -> response of the backend
  currentLocation,  \* locationStore.currentLocation
  heap,             \* reference -> object; the objects of the latest call
  fetched,          \* the array `data` of the latest call (references)
  last,             \* the arguments of the latest call
  repeated,         \* the latest call had the arguments of the call before it
  nearbyPlayers,    \* playerStore.nearbyPlayers
  playerError,      \* playerStore.error
  courts,           \* courtStore.courts
  nearbyCourts,     \* courtStore.nearbyCourts
  courtError,       \* courtStore.error
  games,            \* gameStore.games
  nearbyGames,      \* gameStore.nearbyGames
  gameError,        \* gameStore.error
  nearbyFields,     \* the value getFieldsNearLocation resolved to
  \* locationStore (useLocationStore) and one call of its getCurrentLocation
  permissionStatus, \* LocationState.permissionStatus
  locationIsLoading,\* LocationState.isLoading
  locationError,    \* LocationState.error
  locationPc,       \* the await the call of getCurrentLocation stands at
  locationAnswer,   \* what the device answered to the call
  locationBefore,   \* currentLocation when the call started
  locationResult,   \* the value the call resolved to
  \* the hook useLocation and one call of refreshLocation / getCurrentLocation
  hookCoordinates,  \* state.coordinates
  hookIsLoading,    \* state.isLoading
  hookError,        \* state.error
  hookPermissionStatus, \* state.permissionStatus
  hookPc,           \* the await the call stands at
  hookAnswer,       \* what the device answered to the call
  hookBefore,       \* state.coordinates when the call started
  hookResult,       \* the value getCurrentLocation resolved to
  \* authStore and gameStore of the device, and the backend tables of a game
  profile,          \* authStore.profile: the id of the signed-in user, or "none"
  selectedGame,     \* gameStore.selectedGame: <<>> (null) or <<the game fetched>>
  myGames,          \* gameStore.myGames
  gameIsLoading,    \* gameStore.isLoading
  dbGame,           \* the row of the game in the table games
  participants,     \* the rows of the game in the table game_participants
  lastOp,           \* the latest call of the game store and how far it is
  \* GameDetailScreen's subscription to the game (subscribeToGame)
  subscribed,       \* the channel game:<id> exists
  events,           \* change events published to the channel, not yet delivered
  fetches,          \* the fetchGameById requests of the screen still in flight
  \* AuthProvider: the state signInWithGoogle works on
  isMounted,        \* isMountedRef.current
  isSigningIn,      \* isSigningInRef.current
  authIsLoading,    \* state.isLoading
  signInFlows,      \* the await each signInWithGoogle flow in progress stands at
  signInResults,    \* the AuthResult values returned so far, oldest first
  \* one evaluation of the two distance functions
  measurement,      \* the build's rounding, the two points, the four results
  \* AuthProvider: the session state and the calls working on it
  authUser,         \* state.user
  authSession,      \* state.session
  authProfile,      \* state.profile
  isInitialized,    \* state.isInitialized
  sessionChanges,   \* initializeAuth / handleSessionChange calls at their await
  signOuts,         \* signOut calls at their awaits
  signedOut,        \* SIGNED_OUT handled or signOut completed, and no
                    \* SIGNED_IN / TOKEN_REFRESHED event since
  authIntent,       \* authIntentRef.current
  \* MapScreen and useRequireAuth
  showLoginModal,       \* useRequireAuth: showLoginModal
  isCreateFieldVisible, \* MapScreen: isCreateFieldVisible
  effectPending,        \* the effect on isAuthenticated has to run
  intentLog,            \* add_field intents stored, create-field openings by an intent
  lastAuthCall,         \* the latest requireAuth / checkAuth / consumeAuthIntent call
  \* gameStore: the operations in flight, each with the awaits it has left
  storeOps

locationVars == <<permissionStatus, locationIsLoading, locationError, locationPc,
                  locationAnswer, locationBefore, locationResult>>
hookVars == <<hookCoordinates, hookIsLoading, hookError, hookPermissionStatus, hookPc,
              hookAnswer, hookBefore, hookResult>>

participationVars == <<profile, selectedGame, myGames, gameIsLoading, dbGame,
                       participants, lastOp>>

realtimeVars == <<subscribed, events, fetches>>
authVars == <<isMounted, isSigningIn, authIsLoading, signInFlows, signInResults>>

\* the state outside the proximity call sites
sessionVars == <<authUser, authSession, authProfile, isInitialized, sessionChanges,
                 signOuts, signedOut>>
intentVars == <<authIntent, showLoginModal, isCreateFieldVisible, effectPending,
                intentLog, lastAuthCall>>
moreVars == <<sessionVars, intentVars, storeOps>>

otherVars == <<locationVars, hookVars, participationVars, realtimeVars, authVars,
               measurement, moreVars>>

vars == <<engine, db, currentLocation, heap, fetched, last, repeated,
          nearbyPlayers, playerError, courts, nearbyCourts, courtError,
          games, nearbyGames, gameError, nearbyFields, otherVars>>

envVars == <<engine, db>>
playerVars == <<nearbyPlayers, playerError>>
courtVars == <<courts, nearbyCourts, courtError>>
gameVars == <<games, nearbyGames, gameError>>

NoCall == [site |-> "none", radius |-> Undefined, location |-> NoLocation]
Call(site, radius, location) ==
  [site |-> site, radius |-> radius, location |-> location]

\* the backend answers the requests on one table; requests on the other
\* tables stay pending
Responses(t) ==
  {OkResponse(rows) : rows \in SeqsUpTo(RowsOf(t), MaxRows)} \cup {ErrorResponse}

\* create<LocationState>: the initial state of useLocationStore
LocationStoreCreated ==
  /\ permissionStatus = "null"
  /\ locationIsLoading = FALSE
  /\ locationError = "null"
  /\ locationPc = "idle"
  /\ locationAnswer = "none"
  /\ locationBefore = NoLocation
  /\ locationResult = NoLocation

\* useState<LocationState>: the initial state of the hook useLocation
UseLocationMounted ==
  /\ hookCoordinates = NoLocation
  /\ hookIsLoading = TRUE
  /\ hookError = "null"
  /\ hookPermissionStatus = "null"
  /\ hookPc = "idle"
  /\ hookAnswer = "none"
  /\ hookBefore = NoLocation
  /\ hookResult = NoLocation

\* the users of the backend; the game is organized by the first one
Users == {"ana", "ben"}
Organizer == "ana"

\* a call of the game store: who sent its request, the player and status
\* it names, and how far it is ("called": awaiting the backend; then "ok"
\* or "failed", with the arguments forgotten)
Op(op, actor, player, status, phase) ==
  [op |-> op, actor |-> actor, player |-> player, status |-> status, phase |-> phase]
NoOp == Op("none", "none", "none", "none", "none")

\* create<GameState> / create<AuthState>: nobody signed in, no game selected
GameStoreCreated ==
  /\ profile = "none"
  /\ selectedGame = <<>>
  /\ myGames = <<>>
  /\ gameIsLoading = FALSE

\* the game as createGame inserted it (players_joined: 0, status: 'open'),
\* with no participant yet
GameCreated(needed) ==
  /\ dbGame = [organizer_id |-> Organizer, players_needed |-> needed,
               players_joined |-> 0, status |-> "open"]
  /\ participants = {}
  /\ lastOp = NoOp

\* no screen subscribed to the game
NotSubscribed ==
  /\ subscribed = FALSE
  /\ events = <<>>
  /\ fetches = <<>>

\* AuthProvider mounted: isMountedRef, isSigningInRef = false, isLoading: true
AuthProviderMounted ==
  /\ isMounted = TRUE
  /\ isSigningIn = FALSE
  /\ authIsLoading = TRUE
  /\ signInFlows = <<>>
  /\ signInResults = <<>>

\* initializeAuth waiting for supabase.auth.getSession()
GetSession == [await |-> "getSession", session |-> "null"]

\* handleSessionChange(session) waiting for loadProfile(session.user)
LoadProfile(session) == [await |-> "loadProfile", session |-> session]

\* AuthProvider's initialState, its effect started, authIntentRef = null
SessionInitializing ==
  /\ authUser = "null"
  /\ authSession = "null"
  /\ authProfile = "null"
  /\ isInitialized = FALSE
  /\ sessionChanges = <<GetSession>>
  /\ signOuts = 0
  /\ signedOut = FALSE
  /\ authIntent = "null"

NoAuthCall == [fn |-> "none", authenticated |-> FALSE, intent |-> "null",
               result |-> "none", ran |-> 0]

\* MapScreen mounted by a guest: no modal shown
MapScreenMounted ==
  /\ showLoginModal = FALSE
  /\ isCreateFieldVisible = FALSE
  /\ effectPending = FALSE
  /\ intentLog = [stored |-> 0, opened |-> 0]
  /\ lastAuthCall = NoAuthCall

\* the initial state of the session, of MapScreen and of the game store's calls
MoreCreated ==
  /\ SessionInitializing
  /\ MapScreenMounted
  /\ storeOps = <<>>

NoMeasurement == [rounding |-> "down", measured |-> FALSE]

\* the initial state outside the proximity call sites
OtherCreated ==
  /\ LocationStoreCreated
  /\ UseLocationMounted
  /\ GameStoreCreated
  /\ GameCreated(1)
  /\ NotSubscribed
  /\ AuthProviderMounted
  /\ MoreCreated
  /\ measurement = NoMeasurement

Init ==
  /\ OtherCreated
  /\ engine \in Engines
  /\ \E t \in Tables : \E r \in Responses(t) :
       db = [u \in Tables |-> IF u = t THEN r ELSE PendingResponse]
  /\ currentLocation = NoLocation
  /\ heap = <<>>
  /\ fetched = <<>>
  /\ last = NoCall
  /\ repeated = FALSE
  /\ nearbyPlayers = <<>>
  /\ playerError = "null"
  /\ courts = <<>>
  /\ nearbyCourts = <<>>
  /\ courtError = "null"
  /\ games = <<>>
  /\ nearbyGames = <<>>
  /\ gameError = "null"
  /\ nearbyFields = <<>>

Refs(from, n) == [i \in 1..n |-> from + i]

\* locationStore: set({ currentLocation: location })
SetLocation ==
  /\ \E l \in RefLocations : currentLocation' = l
  /\ currentLocation' # currentLocation
  /\ UNCHANGED <<envVars, heap, fetched, last, repeated, playerVars, courtVars,
                 gameVars, nearbyFields,
                 otherVars>>

\* the chain players.map(...).filter(...).sort(...) of fetchNearbyPlayers,
\* run on the objects `rows` of the response: the heap after it and the
\* resulting array
PlayersMapped(rows, location) ==
  [i \in 1..Len(rows) |-> Decorated(rows[i], PlayerDistance(rows[i], location))]

PlayersFiltered(h, mapped, radiusKm) ==
  SelectSeq(mapped, LAMBDA r : PlayerKeep(h[r], radiusKm))

PlayersRanked(h, n, radiusKm, eng) ==
  [heap |-> h,
   out |-> ArraySort("players", eng, h, PlayersFiltered(h, Refs(n, n), radiusKm))]

\* a map callback that writes the distance on the row and returns the row
RankPlayersInPlace(rows, location, radiusKm, eng) ==
  [heap |-> PlayersMapped(rows, location),
   out |-> ArraySort("players", eng, PlayersMapped(rows, location),
                     PlayersFiltered(PlayersMapped(rows, location),
                                     Refs(0, Len(rows)), radiusKm))]

RankPlayers(rows, location, radiusKm, eng) ==
  PlayersRanked(rows \o PlayersMapped(rows, location), Len(rows), radiusKm, eng)

\* a set() that appends to the list already in the store
SetNearbyPlayersAppending(h, out, data, call) ==
  /\ heap' = h
  /\ nearbyPlayers' = nearbyPlayers \o out
  /\ fetched' = data
  /\ last' = call
  /\ repeated' = (call = last)

\* set({ nearbyPlayers: players }) with the bookkeeping of the call
SetNearbyPlayers(h, out, data, call) ==
  /\ heap' = h
  /\ nearbyPlayers' = out
  /\ fetched' = data
  /\ last' = call
  /\ repeated' = (call = last)

SetNearbyPlayersRanked(ranked, data, call) ==
  SetNearbyPlayers(ranked.heap, ranked.out, data, call)

\* a handler that fails closed: without a location it lists nobody
FetchNearbyPlayersFailClosed(rows, location, radiusKm) ==
  IF location.present
  THEN SetNearbyPlayersRanked(RankPlayers(rows, location, radiusKm, engine),
                              Refs(0, Len(rows)),
                              Call("players", radiusKm, location))
  ELSE SetNearbyPlayers(rows, <<>>, Refs(0, Len(rows)),
                        Call("players", radiusKm, location))

\* playerStore.fetchNearbyPlayers(radiusKm = 10)
FetchNearbyPlayersOk(rows, location, radiusKm) ==
  IF location.present
  THEN SetNearbyPlayersRanked(RankPlayers(rows, location, radiusKm, engine),
                              Refs(0, Len(rows)),
                              Call("players", radiusKm, location))
  ELSE SetNearbyPlayers(rows, Refs(0, Len(rows)), Refs(0, Len(rows)),
                        Call("players", radiusKm, location))

FetchNearbyPlayers ==
  /\ db["profiles"].kind # "pending"
  /\ \E arg \in RadiiKm :
       IF db["profiles"].kind = "error"
       THEN /\ playerError' = "error"
            /\ UNCHANGED <<heap, fetched, last, repeated, nearbyPlayers>>
       ELSE /\ playerError' = "null"
            /\ FetchNearbyPlayersOk(WithId(db["profiles"].rows), currentLocation,
                                    DefaultParam(arg, DefaultPlayerRadiusKm))
  /\ UNCHANGED <<envVars, currentLocation, courtVars, gameVars, nearbyFields,
                 otherVars>>

\* the chain courts.map(...).filter(...).sort(...) of fetchNearbyCourts
CourtsMapped(rows, location) ==
  [i \in 1..Len(rows) |-> Decorated(rows[i], CourtDistance(rows[i], location))]

CourtsFiltered(h, mapped, radiusKm) ==
  SelectSeq(mapped, LAMBDA r : CourtKeep(h[r], radiusKm))

CourtsRanked(h, n, radiusKm, eng) ==
  [heap |-> h,
   out |-> ArraySort("courts", eng, h, CourtsFiltered(h, Refs(n, n), radiusKm))]

RankCourts(rows, location, radiusKm, eng) ==
  CourtsRanked(rows \o CourtsMapped(rows, location), Len(rows), radiusKm, eng)

\* set({ nearbyCourts: courts, courts: data }) with the bookkeeping of the call
SetNearbyCourts(h, out, data, call) ==
  /\ heap' = h
  /\ nearbyCourts' = out
  /\ courts' = data
  /\ fetched' = data
  /\ last' = call
  /\ repeated' = (call = last)

SetNearbyCourtsRanked(ranked, data, call) ==
  SetNearbyCourts(ranked.heap, ranked.out, data, call)

FetchNearbyCourtsOk(rows, location, radiusKm) ==
  IF location.present
  THEN SetNearbyCourtsRanked(RankCourts(rows, location, radiusKm, engine),
                             Refs(0, Len(rows)),
                             Call("courts", radiusKm, location))
  ELSE SetNearbyCourts(rows, Refs(0, Len(rows)), Refs(0, Len(rows)),
                       Call("courts", radiusKm, location))

\* courtStore.fetchNearbyCourts(radiusKm = 15)
FetchNearbyCourts ==
  /\ db["courts"].kind # "pending"
  /\ \E arg \in RadiiKm :
       IF db["courts"].kind = "error"
       THEN /\ courtError' = "error"
            /\ UNCHANGED <<heap, fetched, last, repeated, courts, nearbyCourts>>
       ELSE /\ courtError' = "null"
            /\ FetchNearbyCourtsOk(WithId(db["courts"].rows), currentLocation,
                                   DefaultParam(arg, DefaultCourtRadiusKm))
  /\ UNCHANGED <<envVars, currentLocation, playerVars, gameVars, nearbyFields,
                 otherVars>>

\* filteredGames.filter(...) of fetchNearbyGames: the rows themselves, no copy
GamesFiltered(rows, location, radiusKm) ==
  SelectSeq(Refs(0, Len(rows)), LAMBDA r : GameKeep(rows[r], location, radiusKm))

\* set({ nearbyGames: filteredGames, games: data }) with the bookkeeping
SetNearbyGames(h, out, data, call) ==
  /\ heap' = h
  /\ nearbyGames' = out
  /\ games' = data
  /\ fetched' = data
  /\ last' = call
  /\ repeated' = (call = last)

FetchNearbyGamesOk(rows, location, radiusKm) ==
  SetNearbyGames(rows,
                 IF location.present THEN GamesFiltered(rows, location, radiusKm)
                 ELSE Refs(0, Len(rows)),
                 Refs(0, Len(rows)),
                 Call("games", radiusKm, location))

\* gameStore.fetchNearbyGames(radiusKm = 10)
FetchNearbyGames ==
  /\ db["games"].kind # "pending"
  /\ \E arg \in RadiiKm :
       IF db["games"].kind = "error"
       THEN /\ gameError' = "error"
            /\ UNCHANGED <<heap, fetched, last, repeated, games, nearbyGames>>
       ELSE /\ gameError' = "null"
            /\ FetchNearbyGamesOk(WithId(db["games"].rows), currentLocation,
                                  DefaultParam(arg, DefaultGameRadiusKm))
  /\ UNCHANGED <<envVars, currentLocation, playerVars, courtVars, nearbyFields,
                 otherVars>>

\* rows.filter(...) of getFieldsNearLocation
FieldsFiltered(rows, coordinates, radiusMeters) ==
  SelectSeq(Refs(0, Len(rows)), LAMBDA r : FieldKeep(rows[r], coordinates, radiusMeters))

\* filtered.map(row => this.mapRowToField(row)): the new objects
FieldsMapped(rows, filtered) ==
  [i \in 1..Len(filtered) |-> mapRowToField(rows[filtered[i]])]

FieldsResult(rows, filtered) ==
  [heap |-> rows \o FieldsMapped(rows, filtered),
   out |-> Refs(Len(rows), Len(filtered))]

FieldsNear(rows, coordinates, radiusMeters) ==
  FieldsResult(rows, FieldsFiltered(rows, coordinates, radiusMeters))

ReturnFields(result, data, call) ==
  /\ heap' = result.heap
  /\ nearbyFields' = result.out
  /\ fetched' = data
  /\ last' = call
  /\ repeated' = (call = last)

\* FieldRepository.getFieldsNearLocation(coordinates, radiusMeters = 5000)
GetFieldsNearLocation ==
  /\ db["fields"].kind # "pending"
  /\ \E coordinates \in RefLocations : \E arg \in RadiiMeters :
       IF db["fields"].kind = "error"
       THEN /\ nearbyFields' = <<>>
            /\ UNCHANGED <<heap, fetched, last, repeated>>
       ELSE ReturnFields(FieldsNear(WithId(db["fields"].rows), coordinates,
                                    DefaultParam(arg, DefaultFieldRadiusMeters)),
                         Refs(0, Len(db["fields"].rows)),
                         Call("fields", DefaultParam(arg, DefaultFieldRadiusMeters),
                              coordinates))
  /\ UNCHANGED <<envVars, currentLocation, playerVars, courtVars, gameVars,
                 otherVars>>

Next ==
  \/ SetLocation
  \/ FetchNearbyPlayers
  \/ FetchNearbyCourts
  \/ FetchNearbyGames
  \/ GetFieldsNearLocation

Spec == Init /\ [][Next]_vars

(* ---------------------------------------------------------------------- *)
(* Vocabulary of the properties                                            *)
(* ---------------------------------------------------------------------- *)
\* the array the latest call produced
LastOut ==
  CASE last.site = "players" -> nearbyPlayers
    [] last.site = "courts" -> nearbyCourts
    [] last.site = "games" -> nearbyGames
    [] last.site = "fields" -> nearbyFields
    [] OTHER -> <<>>

\* the table the latest call queried
LastTable ==
  CASE last.site = "players" -> "profiles"
    [] last.site = "courts" -> "courts"
    [] last.site = "games" -> "games"
    [] OTHER -> "fields"

\* the objects the response of the latest call was parsed into
LastRows == WithId(db[LastTable].rows)

Ranked == last.site # "none" /\ last.location.present
Passthrough == last.site # "none" /\ ~last.location.present

\* the distance of the entity behind reference r of the output: the one it
\* is decorated with (players, courts), or the one the filter computed for
\* it (games, fields)
OutDistance(r) ==
  CASE ~last.location.present -> heap[r].distance
    [] last.site = "games" -> GameDistance(heap[r], last.location)
    [] last.site = "fields" -> FieldDistance(heap[r], last.location)
    [] OTHER -> heap[r].distance

OutIndices == 1..Len(LastOut)

\* the entity carries no coordinate at all
NoCoordinate(o) ==
  /\ ~o.court.present
  /\ o.latitude \in {Null, Undefined} \/ o.longitude \in {Null, Undefined}

\* the entity carries a coordinate of two finite numbers
FiniteCoordinate(o) ==
  IF o.court.present
  THEN IsFinite(o.court.latitude) /\ IsFinite(o.court.longitude)
  ELSE IsFinite(o.latitude) /\ IsFinite(o.longitude)

\* one of the numbers of the coordinate is NaN or infinite
NonFiniteCoordinate(o) ==
  \/ o.latitude.k \in {"nan", "inf", "ninf"}
  \/ o.longitude.k \in {"nan", "inf", "ninf"}
  \/ o.court.present /\ o.court.latitude.k \in {"nan", "inf", "ninf"}
  \/ o.court.present /\ o.court.longitude.k \in {"nan", "inf", "ninf"}

\* the ids of the entities of the output
OutIds == {heap[LastOut[i]].id : i \in OutIndices}

(* ---------------------------------------------------------------------- *)
(* C1.  Radius filtering: with a reference location, every entity of the   *)
(* output of a proximity call site that has a defined distance has a       *)
(* distance <= R; no entity whose distance exceeds R is in the output.     *)
(* ---------------------------------------------------------------------- *)
RadiusFiltering ==
  Ranked =>
    \A i \in OutIndices :
      OutDistance(LastOut[i]) # Undefined =>
        JsLeq(OutDistance(LastOut[i]), last.radius)

\* a ranked call kept an entity with a distance and dropped another one
RadiusFilteringWitness ==
  /\ Ranked
  /\ Len(LastOut) < Len(fetched)
  /\ \E i \in OutIndices : IsFinite(OutDistance(LastOut[i]))

(* ---------------------------------------------------------------------- *)
(* C2.  Null reference passthrough: without a reference location the       *)
(* player, game and court call sites return every fetched entity, in the   *)
(* fetched order, and no returned entity has a defined distance.           *)
(* ---------------------------------------------------------------------- *)
NullReferencePassthrough ==
  (Passthrough /\ last.site \in {"players", "games", "courts"}) =>
    /\ Len(LastOut) = Len(db[LastTable].rows)
    /\ \A i \in OutIndices :
         /\ heap[LastOut[i]] = LastRows[i]
         /\ heap[LastOut[i]].distance = Undefined

NullReferencePassthroughWitness ==
  /\ Passthrough
  /\ last.site = "players"
  /\ Len(nearbyPlayers) >= 2
  /\ heap[nearbyPlayers[1]] # heap[nearbyPlayers[2]]

(* ---------------------------------------------------------------------- *)
(* C3.  Missing-coordinate inclusion.  As claimed: with a reference        *)
(* location an entity without a coordinate is in the output of every call  *)
(* site whatever the radius, after every entity with a defined distance.   *)
(* ---------------------------------------------------------------------- *)
MissingCoordinateIncluded ==
  \A k \in 1..Len(LastRows) : NoCoordinate(LastRows[k]) => k \in OutIds

MissingCoordinateLast ==
  \A i \in OutIndices : \A j \in OutIndices :
    (NoCoordinate(heap[LastOut[i]]) /\ OutDistance(LastOut[j]) # Undefined) => j < i

\* the output lists the entities in the order they were fetched in
KeepsFetchedOrder ==
  \A i \in OutIndices : \A j \in OutIndices :
    i < j => heap[LastOut[i]].id < heap[LastOut[j]].id

SortedByDistance ==
  \A i \in OutIndices : \A j \in OutIndices :
    (i < j /\ OutDistance(LastOut[i]) # Undefined /\ OutDistance(LastOut[j]) # Undefined)
      => JsLeq(OutDistance(LastOut[i]), OutDistance(LastOut[j]))

RowIndices == 1..Len(LastRows)

\* the distance the latest call gave the entity of row k: the distance
\* property of its decorated copy (players, courts), or the distance the
\* filter callback computed (games, fields)
RowDistance(k) ==
  CASE last.site \in {"players", "courts"} -> heap[Len(LastRows) + k].distance
    [] last.site = "games" -> GameDistance(heap[k], last.location)
    [] OTHER -> FieldDistance(heap[k], last.location)

\* the error field of the store of the latest call is null
NoError ==
  CASE last.site = "players" -> playerError = "null"
    [] last.site = "courts" -> courtError = "null"
    [] last.site = "games" -> gameError = "null"
    [] OTHER -> TRUE

FetchedRefs == {fetched[k] : k \in 1..Len(fetched)}

(* ---------------------------------------------------------------------- *)
(* C5.  With a reference location, the distance of a decorated entity is   *)
(* undefined exactly when the entity carries no coordinate, and is a       *)
(* non-negative finite number for every entity with a (finite) coordinate, *)
(* latitude or longitude 0 included.                                       *)
(* ---------------------------------------------------------------------- *)
DistanceDefinedIffCoordinate ==
  (Ranked /\ last.site \in {"players", "games", "courts"}) =>
    \A k \in RowIndices :
      /\ NoCoordinate(LastRows[k]) => RowDistance(k) = Undefined
      /\ FiniteCoordinate(LastRows[k]) =>
           IsFinite(RowDistance(k)) /\ RowDistance(k).v >= 0

(* ---------------------------------------------------------------------- *)
(* C6.  The ranking sort puts every entity with an undefined distance      *)
(* after all entities with a defined distance and is stable: entities      *)
(* with an undefined distance, and entities with equal distances, keep     *)
(* their input order.                                                      *)
(* ---------------------------------------------------------------------- *)
RankingSortStable ==
  (Ranked /\ last.site \in {"players", "courts"}) =>
    \A i \in OutIndices : \A j \in OutIndices :
      /\ (heap[LastOut[i]].distance = Undefined
            /\ heap[LastOut[j]].distance # Undefined) => j < i
      /\ (i < j /\ heap[LastOut[i]].distance = heap[LastOut[j]].distance)
           => heap[LastOut[i]].id < heap[LastOut[j]].id

(* ---------------------------------------------------------------------- *)
(* C7.  When the radius is <= 0 the filter of the nearby players and of    *)
(* the nearby courts does not throw and keeps no entity that has a         *)
(* coordinate; only entities without a coordinate remain.                  *)
(* ---------------------------------------------------------------------- *)
NonPositiveRadiusClaimed ==
  (Ranked /\ last.site \in {"players", "courts"} /\ JsLeq(last.radius, Num(0))) =>
    /\ NoError
    /\ \A i \in OutIndices : NoCoordinate(heap[LastOut[i]])

(* ---------------------------------------------------------------------- *)
(* C8.  An entity whose coordinate is NaN or infinite gets a non-finite    *)
(* distance and is not in the output, at every call site, and no           *)
(* exception reaches the caller.                                           *)
(* ---------------------------------------------------------------------- *)
NonFiniteCoordinateExcluded ==
  Ranked =>
    /\ NoError
    /\ \A k \in RowIndices :
         NonFiniteCoordinate(LastRows[k]) =>
           RowDistance(k) = NaN /\ k \notin OutIds

(* ---------------------------------------------------------------------- *)
(* C9.  No mutation of the input.  As claimed: after a ranking call the    *)
(* fetched rows are unchanged (no distance written on them, the fetched    *)
(* array in its order) and the output consists of new decorated copies.    *)
(* ---------------------------------------------------------------------- *)
RowsUnchanged ==
  /\ Len(fetched) = Len(LastRows)
  /\ \A k \in 1..Len(fetched) : heap[fetched[k]] = LastRows[k]

OutputIsNewCopies ==
  \A i \in OutIndices :
    /\ LastOut[i] \notin FetchedRefs
    /\ heap[LastOut[i]] =
         Decorated(LastRows[heap[LastOut[i]].id], RowDistance(heap[LastOut[i]].id))

OutputIsFetchedRows == \A i \in OutIndices : LastOut[i] \in FetchedRefs

Idempotence ==
  [][repeated' =>
       /\ nearbyPlayers' = nearbyPlayers
       /\ nearbyCourts' = nearbyCourts
       /\ nearbyGames' = nearbyGames
       /\ nearbyFields' = nearbyFields
       /\ heap' = heap]_vars

\* a ranking of two players or more ran twice with the same arguments
IdempotenceWitness ==
  /\ repeated
  /\ Ranked
  /\ last.site = "players"
  /\ Len(nearbyPlayers) >= 2

(* ====================================================================== *)
(* The location providers: useLocationStore.getCurrentLocation and the     *)
(* hook useLocation (refreshLocation, getCurrentLocation)                  *)
(* ====================================================================== *)
\* the positions Location.getCurrentPositionAsync may resolve to
Positions == {Location(40, -4), Location(41, -4)}

\* the outcomes of Location.requestForegroundPermissionsAsync: a status, or
\* a rejection
PermissionStatuses == {"granted", "denied", "undetermined"}

\* the proximity stores as created, with no request answered
ProximityIdle ==
  /\ engine = "pivotFirst"
  /\ db = [u \in Tables |-> PendingResponse]
  /\ currentLocation = NoLocation
  /\ heap = <<>>
  /\ fetched = <<>>
  /\ last = NoCall
  /\ repeated = FALSE
  /\ nearbyPlayers = <<>>
  /\ playerError = "null"
  /\ courts = <<>>
  /\ nearbyCourts = <<>>
  /\ courtError = "null"
  /\ games = <<>>
  /\ nearbyGames = <<>>
  /\ gameError = "null"
  /\ nearbyFields = <<>>

proximityVars == <<envVars, heap, fetched, last, repeated, playerVars, courtVars,
                   gameVars, nearbyFields>>

restVars == <<realtimeVars, authVars, measurement, moreVars>>

\* getCurrentLocation of the store up to its first await:
\* set({ isLoading: true, error: null }); get().requestPermission()
GetCurrentLocationCalled ==
  /\ locationPc \in {"idle", "done"}
  /\ locationIsLoading' = TRUE
  /\ locationError' = "null"
  /\ locationPc' = "permission"
  /\ locationAnswer' = "none"
  /\ locationBefore' = currentLocation
  /\ locationResult' = NoLocation
  /\ UNCHANGED <<permissionStatus, currentLocation, hookVars, participationVars, restVars, proximityVars>>

\* a catch block that also forgets the location the store holds
GetCurrentLocationFailedClearing(message, answer) ==
  /\ locationError' = message
  /\ locationResult' = NoLocation
  /\ locationIsLoading' = FALSE
  /\ locationPc' = "done"
  /\ locationAnswer' = answer
  /\ currentLocation' = NoLocation

\* catch (error) { set({ error: error.message }); return null }
\* finally { set({ isLoading: false }) }
GetCurrentLocationFailed(message, answer) ==
  /\ locationError' = message
  /\ locationResult' = NoLocation
  /\ locationIsLoading' = FALSE
  /\ locationPc' = "done"
  /\ locationAnswer' = answer
  /\ UNCHANGED currentLocation

\* requestPermission answered; without the permission getCurrentLocation
\* throws 'Location permission not granted' into its catch block
RequestPermissionAnswered ==
  /\ locationPc = "permission"
  /\ \/ \E status \in PermissionStatuses :
          /\ permissionStatus' = status
          /\ IF status = "granted"
             THEN /\ locationPc' = "position"
                  /\ UNCHANGED <<locationIsLoading, locationError, locationAnswer,
                                 locationResult, currentLocation>>
             ELSE GetCurrentLocationFailed("Location permission not granted",
                                           "denied")
     \/ /\ UNCHANGED permissionStatus
        /\ GetCurrentLocationFailed("Location permission not granted", "denied")
  /\ UNCHANGED <<locationBefore, hookVars, participationVars, restVars, proximityVars>>

\* Location.getCurrentPositionAsync answered
GetCurrentPositionAnswered ==
  /\ locationPc = "position"
  /\ \/ \E location \in Positions :
          /\ currentLocation' = location
          /\ locationResult' = location
          /\ locationIsLoading' = FALSE
          /\ locationPc' = "done"
          /\ locationAnswer' = "position"
          /\ UNCHANGED locationError
     \/ GetCurrentLocationFailed("Current location is unavailable", "unavailable")
  /\ UNCHANGED <<permissionStatus, locationBefore, hookVars, participationVars, restVars, proximityVars>>

\* the hook: refreshLocation up to its first await (requestPermission)
RefreshLocationCalled ==
  /\ hookPc \in {"idle", "done"}
  /\ hookPc' = "permission"
  /\ hookAnswer' = "none"
  /\ hookBefore' = hookCoordinates
  /\ hookResult' = NoLocation
  /\ UNCHANGED <<hookCoordinates, hookIsLoading, hookError, hookPermissionStatus,
                 locationVars, currentLocation, participationVars, restVars,
                 proximityVars>>

\* the hook: getCurrentLocation up to its await:
\* setState(prev => ({ ...prev, isLoading: true, error: null }))
HookGetCurrentLocationStarted ==
  /\ hookIsLoading' = TRUE
  /\ hookError' = "null"
  /\ hookPc' = "position"

\* the hook: getCurrentLocation called by the component
HookGetCurrentLocationCalled ==
  /\ hookPc \in {"idle", "done"}
  /\ HookGetCurrentLocationStarted
  /\ hookAnswer' = "none"
  /\ hookBefore' = hookCoordinates
  /\ hookResult' = NoLocation
  /\ UNCHANGED <<hookCoordinates, hookPermissionStatus,
                 locationVars, currentLocation, participationVars, restVars,
                 proximityVars>>

\* the hook: requestPermission answered inside refreshLocation
HookPermissionAnswered ==
  /\ hookPc = "permission"
  /\ \/ \E status \in PermissionStatuses :
          /\ hookPermissionStatus' = status
          /\ IF status = "granted"
             THEN /\ HookGetCurrentLocationStarted
                  /\ UNCHANGED hookAnswer
             ELSE /\ hookIsLoading' = FALSE
                  /\ hookError' = "Location permission denied"
                  /\ hookPc' = "done"
                  /\ hookAnswer' = "denied"
     \/ /\ UNCHANGED hookPermissionStatus
        /\ hookIsLoading' = FALSE
        /\ hookError' = "Location permission denied"
        /\ hookPc' = "done"
        /\ hookAnswer' = "denied"
  /\ UNCHANGED <<hookCoordinates, hookBefore, hookResult,
                 locationVars, currentLocation, participationVars, restVars,
                 proximityVars>>

\* the hook: Location.getCurrentPositionAsync answered
HookPositionAnswered ==
  /\ hookPc = "position"
  /\ \/ \E location \in Positions :
          /\ hookCoordinates' = location
          /\ hookResult' = location
          /\ hookIsLoading' = FALSE
          /\ hookError' = "null"
          /\ hookAnswer' = "position"
     \/ /\ hookError' = "Failed to get location"
        /\ hookIsLoading' = FALSE
        /\ hookResult' = NoLocation
        /\ hookAnswer' = "unavailable"
        /\ UNCHANGED hookCoordinates
  /\ hookPc' = "done"
  /\ UNCHANGED <<hookPermissionStatus, hookBefore,
                 locationVars, currentLocation, participationVars, restVars,
                 proximityVars>>

InitLocation ==
  /\ OtherCreated
  /\ ProximityIdle

NextLocation ==
  \/ GetCurrentLocationCalled
  \/ RequestPermissionAnswered
  \/ GetCurrentPositionAnswered
  \/ RefreshLocationCalled
  \/ HookGetCurrentLocationCalled
  \/ HookPermissionAnswered
  \/ HookPositionAnswered

SpecLocation == InitLocation /\ [][NextLocation]_vars

(* ---------------------------------------------------------------------- *)
(* C11.  When the permission is denied or the position cannot be           *)
(* obtained, the location provider yields null: getCurrentLocation         *)
(* returns null, an error message is recorded, isLoading is false again    *)
(* and no new currentLocation / coordinates value is written (store and    *)
(* hook).                                                                  *)
(* ---------------------------------------------------------------------- *)
LocationUnavailableYieldsNull ==
  /\ (locationPc = "done" /\ locationAnswer \in {"denied", "unavailable"}) =>
       /\ locationResult = NoLocation
       /\ locationError # "null"
       /\ locationIsLoading = FALSE
       /\ currentLocation = locationBefore
  /\ (hookPc = "done" /\ hookAnswer \in {"denied", "unavailable"}) =>
       /\ hookResult = NoLocation
       /\ hookError # "null"
       /\ hookIsLoading = FALSE
       /\ hookCoordinates = hookBefore

\* the store holds a position of an earlier call and a later call failed
\* for want of the permission
LocationUnavailableYieldsNullWitness ==
  /\ locationPc = "done"
  /\ locationAnswer = "denied"
  /\ currentLocation # NoLocation
  /\ hookPc = "done"
  /\ hookAnswer = "unavailable"
  /\ hookCoordinates # NoLocation

(* ====================================================================== *)
(* Joining a game: gameStore.joinGame, leaveGame, updateParticipantStatus  *)
(* and fetchGameById on the tables games and game_participants, with the   *)
(* row level security policies and the trigger on_participant_change       *)
(* ====================================================================== *)
MaxPlayersNeeded == 2
MaxPlayersJoined == 3

\* the status values the organizer's buttons pass to updateParticipantStatus
ManagedStatuses == {"approved", "rejected"}

\* SELECT COUNT(*) FROM game_participants WHERE game_id = ... AND status = 'approved'
ApprovedCount(ps) == Cardinality({r \in ps : r.status = "approved"})

\* update_players_joined, TG_OP = 'INSERT' OR TG_OP = 'UPDATE'
AfterInsertOrUpdate(g, ps) ==
  [g EXCEPT !.players_joined = ApprovedCount(ps),
            !.status = IF ApprovedCount(ps) >= g.players_needed /\ g.status = "open"
                       THEN "full" ELSE g.status]

\* update_players_joined, TG_OP = 'DELETE'
AfterDelete(g, ps) ==
  [g EXCEPT !.players_joined = ApprovedCount(ps),
            !.status = IF ApprovedCount(ps) < g.players_needed /\ g.status = "full"
                       THEN "open" ELSE g.status]

\* a policy that lets every user update the participants of a game
AnybodyMayManageParticipants(uid, g) == uid \in Users

\* policy "Organizers can manage participants" (FOR UPDATE) and policy
\* "Organizers can update their games"
MayManageParticipants(uid, g) == g.organizer_id = uid

\* a table without the constraint UNIQUE(game_id, player_id)
NeverViolatesUnique(ps, player) == FALSE

\* UNIQUE(game_id, player_id)
ViolatesUnique(ps, player) == \E r \in ps : r.player_id = player

\* the game with its participants, as fetchGameById selects it
GameWithDetails(g, ps) == [game |-> g, participants |-> ps]

\* fetchMyGames: the games the user organizes or takes part in
MyGamesOf(uid, g, ps) ==
  IF \/ g.organizer_id = uid
     \/ \E r \in ps : r.player_id = uid /\ r.status \in {"pending", "approved"}
  THEN <<GameWithDetails(g, ps)>>
  ELSE <<>>

\* what the handlers of a game leave alone
gameFrame == <<locationVars, hookVars, currentLocation, engine, db, heap, fetched,
               last, repeated, playerVars, courtVars, games, nearbyGames,
               nearbyFields, restVars>>

\* authStore: fetchProfile set({ profile: data }) after a sign-in, or
\* signOut set({ profile: null })
SetProfile ==
  /\ lastOp.phase # "called"
  /\ \E u \in Users \cup {"none"} : profile' = u
  /\ profile' # profile
  /\ UNCHANGED <<selectedGame, myGames, gameIsLoading, dbGame, participants, lastOp,
                 gameError, gameFrame>>

\* a handler of the store up to its first await:
\* set({ isLoading: true, error: null }), then the request is sent
GameStoreCalled(op) ==
  /\ lastOp.phase # "called"
  /\ lastOp' = op
  /\ gameIsLoading' = TRUE
  /\ gameError' = "null"
  /\ UNCHANGED <<profile, selectedGame, myGames, dbGame, participants, gameFrame>>

\* fetchGameById(gameId), joinGame(gameId), leaveGame(gameId) and
\* updateParticipantStatus(gameId, playerId, status) are called
FetchGameByIdCalled == GameStoreCalled(Op("fetchGameById", profile, "none", "none", "called"))

JoinGameCalled ==
  /\ profile # "none"
  /\ GameStoreCalled(Op("joinGame", profile, profile, "pending", "called"))

LeaveGameCalled ==
  /\ profile # "none"
  /\ GameStoreCalled(Op("leaveGame", profile, profile, "none", "called"))

UpdateParticipantStatusCalled ==
  \E playerId \in Users : \E status \in ManagedStatuses :
    /\ IF status = "approved" /\ selectedGame # <<>>
       THEN selectedGame[1].game.players_joined < MaxPlayersJoined
       ELSE TRUE
    /\ GameStoreCalled(Op("updateParticipantStatus", profile, playerId, status, "called"))

\* the rest of a handler once the backend answered: the tables after the
\* request, the refetches and finally { set({ isLoading: false }) }
GameStoreAnswered(g, ps, refetchMine) ==
  /\ dbGame' = g
  /\ participants' = ps
  /\ selectedGame' = <<GameWithDetails(g, ps)>>
  /\ myGames' = IF refetchMine THEN MyGamesOf(profile, g, ps) ELSE myGames
  /\ lastOp' = Op(lastOp.op, "none", "none", "none", "ok")
  /\ gameError' = "null"
  /\ gameIsLoading' = FALSE

\* fetchGameById: set({ selectedGame: data })
FetchGameByIdAnswered ==
  /\ lastOp.phase = "called"
  /\ lastOp.op = "fetchGameById"
  /\ GameStoreAnswered(dbGame, participants, FALSE)
  /\ UNCHANGED <<profile, gameFrame>>

\* joinGame: the insert of { game_id, player_id, status: 'pending' }; an
\* error of the insert goes to catch and finally
JoinGameAnswered ==
  /\ lastOp.phase = "called"
  /\ lastOp.op = "joinGame"
  /\ IF ViolatesUnique(participants, lastOp.player)
     THEN /\ gameError' = "duplicate key value violates unique constraint"
          /\ gameIsLoading' = FALSE
          /\ lastOp' = Op(lastOp.op, "none", "none", "none", "failed")
          /\ UNCHANGED <<dbGame, participants, selectedGame, myGames>>
     ELSE GameStoreAnswered(
            AfterInsertOrUpdate(dbGame, participants \cup
              {[player_id |-> lastOp.player, status |-> lastOp.status]}),
            participants \cup {[player_id |-> lastOp.player, status |-> lastOp.status]},
            profile # "none")
  /\ UNCHANGED <<profile, gameFrame>>

\* leaveGame: the delete of the rows of the player; the trigger runs for each
\* row deleted
LeaveGameAnswered ==
  /\ lastOp.phase = "called"
  /\ lastOp.op = "leaveGame"
  /\ IF \E r \in participants : r.player_id = lastOp.player
     THEN GameStoreAnswered(
            AfterDelete(dbGame, {r \in participants : r.player_id # lastOp.player}),
            {r \in participants : r.player_id # lastOp.player},
            profile # "none")
     ELSE GameStoreAnswered(dbGame, participants, profile # "none")
  /\ UNCHANGED <<profile, gameFrame>>

\* .update({ status }).eq('game_id', gameId).eq('player_id', playerId): the
\* rows the policy lets the user update
ParticipantsUpdated(uid, g, ps, playerId, status) ==
  IF MayManageParticipants(uid, g)
  THEN {[r EXCEPT !.status = IF r.player_id = playerId THEN status ELSE r.status]
          : r \in ps}
  ELSE ps

\* the trigger runs for each row the update touched
GameAfterParticipantsUpdated(uid, g, ps, playerId, status) ==
  IF MayManageParticipants(uid, g) /\ \E r \in ps : r.player_id = playerId
  THEN AfterInsertOrUpdate(g, ParticipantsUpdated(uid, g, ps, playerId, status))
  ELSE g

\* if (status === 'approved') { const game = get().selectedGame; if (game)
\* update({ players_joined: game.players_joined + 1 }).eq('id', gameId) }
PlayersJoinedWritten(uid, g, status, selected) ==
  IF status = "approved" /\ selected # <<>> /\ MayManageParticipants(uid, g)
  THEN [g EXCEPT !.players_joined = selected[1].game.players_joined + 1]
  ELSE g

UpdateParticipantStatusAnswered ==
  /\ lastOp.phase = "called"
  /\ lastOp.op = "updateParticipantStatus"
  /\ GameStoreAnswered(
       PlayersJoinedWritten(lastOp.actor,
         GameAfterParticipantsUpdated(lastOp.actor, dbGame, participants,
                                      lastOp.player, lastOp.status),
         lastOp.status, selectedGame),
       ParticipantsUpdated(lastOp.actor, dbGame, participants, lastOp.player,
                           lastOp.status),
       FALSE)
  /\ UNCHANGED <<profile, gameFrame>>

InitGames ==
  /\ LocationStoreCreated
  /\ UseLocationMounted
  /\ ProximityIdle
  /\ NotSubscribed
  /\ AuthProviderMounted
  /\ MoreCreated
  /\ measurement = NoMeasurement
  /\ GameStoreCreated
  /\ \E needed \in 1..MaxPlayersNeeded : GameCreated(needed)

NextGames ==
  \/ SetProfile
  \/ FetchGameByIdCalled
  \/ FetchGameByIdAnswered
  \/ JoinGameCalled
  \/ JoinGameAnswered
  \/ LeaveGameCalled
  \/ LeaveGameAnswered
  \/ UpdateParticipantStatusCalled
  \/ UpdateParticipantStatusAnswered

SpecGames == InitGames /\ [][NextGames]_vars

(* ---------------------------------------------------------------------- *)
(* C12.  A join request always starts as 'pending': a new participation    *)
(* row comes from joinGame and has the status 'pending', and the status    *)
(* of an existing participation changes only through                       *)
(* updateParticipantStatus sent by the organizer of the game.              *)
(* ---------------------------------------------------------------------- *)
JoinRequestsStartPending ==
  [][\A r \in participants' \ participants :
       IF \E o \in participants : o.player_id = r.player_id
       THEN /\ lastOp.op = "updateParticipantStatus"
            /\ lastOp.actor = dbGame.organizer_id
       ELSE /\ lastOp.op = "joinGame"
            /\ r.status = "pending"]_vars

\* the organizer approved one request while another one is pending
JoinRequestsStartPendingWitness ==
  /\ \E r \in participants : r.status = "approved"
  /\ \E r \in participants : r.status = "pending"

(* ---------------------------------------------------------------------- *)
(* C17.  After any sequence of joinGame, updateParticipantStatus and       *)
(* leaveGame, players_joined of the game equals the number of its          *)
(* participants whose status is 'approved'.                                *)
(* ---------------------------------------------------------------------- *)
PlayersJoinedCountsApproved ==
  lastOp.phase # "called" =>
    dbGame.players_joined = ApprovedCount(participants)

(* ---------------------------------------------------------------------- *)
(* C18.  A game has the status 'full' only if players_joined >=            *)
(* players_needed: a change that brings the approved count below           *)
(* players_needed reopens a 'full' game.                                   *)
(* ---------------------------------------------------------------------- *)
FullOnlyWithEnoughPlayers ==
  (lastOp.phase # "called" /\ dbGame.status = "full") =>
    /\ dbGame.players_joined >= dbGame.players_needed
    /\ ApprovedCount(participants) >= dbGame.players_needed

(* ---------------------------------------------------------------------- *)
(* C19.  A player has at most one participation row per game: a joinGame   *)
(* of a player who has a row already creates no second row, the error of   *)
(* the insert is stored in the error field of the store and isLoading is   *)
(* false again.                                                            *)
(* ---------------------------------------------------------------------- *)
OneParticipationPerPlayer ==
  /\ \A r1 \in participants : \A r2 \in participants :
       r1.player_id = r2.player_id => r1 = r2
  /\ (lastOp.op = "joinGame" /\ lastOp.phase = "failed") =>
       /\ gameError # "null"
       /\ gameIsLoading = FALSE

\* an approved player asked to join again and the insert was refused
OneParticipationPerPlayerWitness ==
  /\ lastOp.op = "joinGame"
  /\ lastOp.phase = "failed"
  /\ profile # "none"
  /\ \E r \in participants : r.player_id = profile /\ r.status = "approved"

(* ---------------------------------------------------------------------- *)
(* The two distance functions on their own: one evaluation, both ways      *)
(* round, of a pair of points of a grid that has identical and antipodal   *)
(* pairs, in a build that rounds down or up.                               *)
(* ---------------------------------------------------------------------- *)
LatGrid == {-90, -82, 0, 40, 82, 90}
LonGrid == {-180, -90, 0, 90, 180}
GridPoints == {[latitude |-> lat, longitude |-> lon] : lat \in LatGrid, lon \in LonGrid}

\* |x| of a number: Math.abs
JsAbs(x) == IF x.k = "num" /\ x.v < 0 THEN Num(-x.v) ELSE IF x.k = "ninf" THEN PosInf ELSE x

\* the results of calculateDistance (km) and of FieldRepository's
\* calculateDistance (metres) for from -> to, to -> from and from -> from
Measured(rounding, from, to) ==
  [rounding |-> rounding, measured |-> TRUE, from |-> from, to |-> to,
   km |-> calculateDistance(rounding, Num(from.latitude), Num(from.longitude),
                            Num(to.latitude), Num(to.longitude)),
   kmBack |-> calculateDistance(rounding, Num(to.latitude), Num(to.longitude),
                                Num(from.latitude), Num(from.longitude)),
   kmSelf |-> calculateDistance(rounding, Num(from.latitude), Num(from.longitude),
                                Num(from.latitude), Num(from.longitude)),
   meters |-> FieldCalculateDistance(rounding, Location(from.latitude, from.longitude),
                                     Location(to.latitude, to.longitude)),
   metersBack |-> FieldCalculateDistance(rounding, Location(to.latitude, to.longitude),
                                         Location(from.latitude, from.longitude)),
   metersSelf |-> FieldCalculateDistance(rounding,
                                         Location(from.latitude, from.longitude),
                                         Location(from.latitude, from.longitude))]

\* the pair of points and the build, before the functions are called
ToMeasure(rounding, from, to) ==
  [rounding |-> rounding, measured |-> FALSE, from |-> from, to |-> to]

Measure ==
  /\ ~measurement.measured
  /\ measurement' = Measured(measurement.rounding, measurement.from, measurement.to)
  /\ UNCHANGED <<locationVars, hookVars, participationVars, realtimeVars, authVars,
                 moreVars, currentLocation, proximityVars>>

InitDistance ==
  /\ LocationStoreCreated
  /\ UseLocationMounted
  /\ GameStoreCreated
  /\ GameCreated(1)
  /\ NotSubscribed
  /\ AuthProviderMounted
  /\ MoreCreated
  /\ ProximityIdle
  /\ \E rounding \in Roundings : \E from \in GridPoints : \E to \in GridPoints :
       measurement = ToMeasure(rounding, from, to)

SpecDistance == InitDistance /\ [][Measure]_vars

(* ---------------------------------------------------------------------- *)
(* C16.  For all finite coordinates, identical and antipodal pairs         *)
(* included, the distance is a finite number that is not negative: it is   *)
(* never NaN.                                                              *)
(* ---------------------------------------------------------------------- *)
DistanceFiniteNonNegative ==
  measurement.measured =>
    /\ IsFinite(measurement.km) /\ measurement.km.v >= 0
    /\ IsFinite(measurement.meters) /\ measurement.meters.v >= 0
    /\ IsFinite(measurement.kmSelf) /\ measurement.kmSelf.v >= 0
    /\ IsFinite(measurement.metersSelf) /\ measurement.metersSelf.v >= 0

(* ---------------------------------------------------------------------- *)
(* C14.  The distance is symmetric in both implementations: the distance   *)
(* from a to b and the distance from b to a differ by nothing.             *)
(* ---------------------------------------------------------------------- *)
DistanceSymmetric ==
  measurement.measured =>
    /\ JsLeq(JsAbs(JsSub(measurement.km, measurement.kmBack)), Num(0))
    /\ JsLeq(JsAbs(JsSub(measurement.meters, measurement.metersBack)), Num(0))

(* ---------------------------------------------------------------------- *)
(* fetchNearbyPlayers with the device on the equator                       *)
(* ---------------------------------------------------------------------- *)
InitEquator ==
  /\ OtherCreated
  /\ engine \in Engines
  /\ \E rows \in SeqsUpTo(EquatorRows, MaxRows) :
       db = [u \in Tables |-> IF u = "profiles" THEN OkResponse(rows)
                              ELSE PendingResponse]
  /\ currentLocation = EquatorLocation
  /\ heap = <<>>
  /\ fetched = <<>>
  /\ last = NoCall
  /\ repeated = FALSE
  /\ nearbyPlayers = <<>>
  /\ playerError = "null"
  /\ courts = <<>>
  /\ nearbyCourts = <<>>
  /\ courtError = "null"
  /\ games = <<>>
  /\ nearbyGames = <<>>
  /\ gameError = "null"
  /\ nearbyFields = <<>>

SpecEquator == InitEquator /\ [][FetchNearbyPlayers]_vars

\* the object is located at the reference point of the latest call
AtReference(o) ==
  /\ o.latitude = last.location.latitude
  /\ o.longitude = last.location.longitude

(* ---------------------------------------------------------------------- *)
(* C15.  The distance from a coordinate to itself is exactly 0, so a       *)
(* player located at the reference point is kept by the radius filter for  *)
(* every radius >= 0 and is ranked first: only players located at the      *)
(* reference point too come before it.                                     *)
(* ---------------------------------------------------------------------- *)
AtReferenceKeptAndFirst ==
  (last.site = "players" /\ last.location.present /\ JsLeq(Num(0), last.radius)) =>
    \A i \in 1..Len(fetched) :
      AtReference(heap[fetched[i]]) =>
        \E k \in 1..Len(nearbyPlayers) :
          /\ heap[nearbyPlayers[k]].id = heap[fetched[i]].id
          /\ \A j \in 1..(k - 1) : AtReference(heap[nearbyPlayers[j]])

(* ---------------------------------------------------------------------- *)
(* AuthProvider.signInWithGoogle: the calls, the answer of the native      *)
(* Google sign-in and the answer of supabase.auth.signInWithIdToken         *)
(* ---------------------------------------------------------------------- *)
AuthResult(success, cancelled, error) ==
  [success |-> success, cancelled |-> cancelled, error |-> error]

AlreadyInProgress == AuthResult(FALSE, FALSE, "Sign-in already in progress")

\* what googleAuthService.signIn() may do
GoogleAnswers == {"idToken", "cancelled", "error", "throws"}

\* what supabase.auth.signInWithIdToken() may do
SupabaseAnswers == {"session", "error", "throws"}

\* safeSetState({ isLoading }): no update once the provider is unmounted
SafeSetLoading(value) == IF isMounted THEN value ELSE authIsLoading

RemoveAt(seq, i) == SubSeq(seq, 1, i - 1) \o SubSeq(seq, i + 1, Len(seq))

authFrame == <<locationVars, hookVars, participationVars, realtimeVars, measurement, moreVars,
               currentLocation, proximityVars>>

\* if (isSigningInRef.current)
SignInInProgress == isSigningIn

\* signInWithGoogle up to its first await
SignInWithGoogleCalled ==
  /\ Len(signInResults) + Len(signInFlows) < MaxSignIns
  /\ IF SignInInProgress
     THEN /\ signInResults' = Append(signInResults, AlreadyInProgress)
          /\ UNCHANGED <<isSigningIn, authIsLoading, signInFlows>>
     ELSE /\ isSigningIn' = TRUE
          /\ authIsLoading' = SafeSetLoading(TRUE)
          /\ signInFlows' = Append(signInFlows, "google")
          /\ UNCHANGED signInResults
  /\ UNCHANGED <<isMounted, authFrame>>

\* an exit path that forgets isSigningInRef.current = false
SignInFailedKeepingFlag(i, result) ==
  /\ authIsLoading' = SafeSetLoading(FALSE)
  /\ signInFlows' = RemoveAt(signInFlows, i)
  /\ signInResults' = Append(signInResults, result)
  /\ UNCHANGED isSigningIn

\* the exits of flow i that return { success: false, ... }
SignInFailed(i, result) ==
  /\ authIsLoading' = SafeSetLoading(FALSE)
  /\ isSigningIn' = FALSE
  /\ signInFlows' = RemoveAt(signInFlows, i)
  /\ signInResults' = Append(signInResults, result)

\* await googleAuthService.signIn() answers for flow i
GoogleSignInAnswered ==
  /\ \E i \in 1..Len(signInFlows) : \E answer \in GoogleAnswers :
       /\ signInFlows[i] = "google"
       /\ CASE answer = "idToken" ->
                 /\ signInFlows' = [signInFlows EXCEPT ![i] = "supabase"]
                 /\ UNCHANGED <<isSigningIn, authIsLoading, signInResults>>
            [] answer = "cancelled" ->
                 SignInFailed(i, AuthResult(FALSE, TRUE, "undefined"))
            [] answer = "error" ->
                 SignInFailed(i, AuthResult(FALSE, FALSE, "googleResult.error"))
            [] OTHER ->
                 SignInFailed(i, AuthResult(FALSE, FALSE, "An unexpected error occurred"))
  /\ UNCHANGED <<isMounted, authFrame>>

\* await supabase.auth.signInWithIdToken(...) answers for flow i
SupabaseSignInAnswered ==
  /\ \E i \in 1..Len(signInFlows) : \E answer \in SupabaseAnswers :
       /\ signInFlows[i] = "supabase"
       /\ CASE answer = "session" ->
                 /\ isSigningIn' = FALSE
                 /\ signInFlows' = RemoveAt(signInFlows, i)
                 /\ signInResults' = Append(signInResults,
                                            AuthResult(TRUE, FALSE, "undefined"))
                 /\ UNCHANGED authIsLoading
            [] answer = "error" ->
                 SignInFailed(i, AuthResult(FALSE, FALSE, "error.message"))
            [] OTHER ->
                 SignInFailed(i, AuthResult(FALSE, FALSE, "An unexpected error occurred"))
  /\ UNCHANGED <<isMounted, authFrame>>

\* the cleanup of the provider's effect: isMountedRef.current = false
AuthProviderUnmounted ==
  /\ isMounted
  /\ isMounted' = FALSE
  /\ UNCHANGED <<isSigningIn, authIsLoading, signInFlows, signInResults, authFrame>>

InitAuth ==
  /\ LocationStoreCreated
  /\ UseLocationMounted
  /\ GameStoreCreated
  /\ GameCreated(1)
  /\ NotSubscribed
  /\ ProximityIdle
  /\ measurement = NoMeasurement
  /\ AuthProviderMounted
  /\ MoreCreated

NextAuth ==
  \/ SignInWithGoogleCalled
  \/ GoogleSignInAnswered
  \/ SupabaseSignInAnswered
  \/ AuthProviderUnmounted

SpecAuth == InitAuth /\ [][NextAuth]_vars

(* ---------------------------------------------------------------------- *)
(* C20.  At most one signInWithGoogle flow runs at a time: a call made     *)
(* while a flow is in progress returns { success: false, error: 'Sign-in   *)
(* already in progress' } and starts no second Google sign-in, and every   *)
(* exit of a flow (success, cancel, Google error, Supabase error,          *)
(* exception) clears the in-progress flag, so that the flag is set exactly *)
(* while a flow is in progress.                                            *)
(* ---------------------------------------------------------------------- *)
SingleSignInFlow ==
  [][/\ Len(signInFlows') <= 1
     /\ isSigningIn' = (signInFlows' # <<>>)
     /\ (signInFlows # <<>> /\ Len(signInFlows') >= Len(signInFlows)
         /\ signInResults' # signInResults) =>
          /\ signInResults' = Append(signInResults, AlreadyInProgress)
          /\ signInFlows' = signInFlows
     /\ (signInFlows = <<>> /\ signInResults' # signInResults) => FALSE
    ]_vars

\* a call was turned away while a flow was in progress, the flow ended by
\* an exception, and a later sign-in started and succeeded
SingleSignInFlowWitness ==
  /\ Len(signInResults) = 3
  /\ signInResults[1] = AlreadyInProgress
  /\ signInResults[2] = AuthResult(FALSE, FALSE, "An unexpected error occurred")
  /\ signInResults[3] = AuthResult(TRUE, FALSE, "undefined")
  /\ signInFlows = <<>>
  /\ ~isSigningIn

(* ---------------------------------------------------------------------- *)
(* GameDetailScreen: fetchGameById and subscribeToGame on mount, the       *)
(* change events of the channel, and the fetchGameById requests they       *)
(* start.  Other devices change the participants of the game; the trigger  *)
(* update_players_joined then updates the game row.                        *)
(* ---------------------------------------------------------------------- *)
realtimeFrame == <<locationVars, hookVars, currentLocation, engine, db, heap, fetched,
                   last, repeated, playerVars, courtVars, games, nearbyGames,
                   nearbyFields, authVars, measurement, moreVars, profile, myGames,
                   lastOp>>

\* a fetchGameById request before the backend has run its select
Sent == [read |-> FALSE, data |-> <<>>]

\* fetchGameById up to its await: set({ isLoading: true, error: null })
FetchStarted ==
  /\ fetches' = Append(fetches, Sent)
  /\ gameIsLoading' = TRUE
  /\ gameError' = "null"

\* useEffect of GameDetailScreen: fetchGameById(gameId), subscribeToGame(gameId)
GameDetailMounted ==
  /\ ~subscribed
  /\ Len(fetches) < MaxFetches
  /\ subscribed' = TRUE
  /\ FetchStarted
  /\ UNCHANGED <<events, selectedGame, dbGame, participants, realtimeFrame>>

\* the cleanup of the effect: unsubscribe(), supabase.removeChannel(channel)
GameDetailUnmounted ==
  /\ subscribed
  /\ subscribed' = FALSE
  /\ events' = <<>>
  /\ UNCHANGED <<fetches, gameIsLoading, gameError, selectedGame, dbGame,
                 participants, realtimeFrame>>

\* supabase_realtime publishes the change of game_participants and the
\* update of games made by the trigger to the channel, if there is one
Published == IF subscribed THEN events \o <<"game_participants", "games">> ELSE events

\* another device joins the game or leaves it
ParticipantsChanged ==
  /\ Len(Published) <= MaxEvents
  /\ \E player \in Users :
       IF ViolatesUnique(participants, player)
       THEN /\ participants' = {r \in participants : r.player_id # player}
            /\ dbGame' = AfterDelete(dbGame, participants')
       ELSE /\ participants' =
                 participants \cup {[player_id |-> player, status |-> "pending"]}
            /\ dbGame' = AfterInsertOrUpdate(dbGame, participants')
  /\ events' = Published
  /\ UNCHANGED <<subscribed, fetches, gameIsLoading, gameError, selectedGame,
                 realtimeFrame>>

\* a postgres_changes callback of the channel: get().fetchGameById(gameId)
ChangeEventDelivered ==
  /\ subscribed
  /\ events # <<>>
  /\ Len(fetches) < MaxFetches
  /\ events' = Tail(events)
  /\ FetchStarted
  /\ UNCHANGED <<subscribed, selectedGame, dbGame, participants, realtimeFrame>>

\* the backend runs the select of one of the requests
GameSelected ==
  /\ \E i \in 1..Len(fetches) :
       /\ ~fetches[i].read
       /\ fetches' = [fetches EXCEPT ![i] =
                        [read |-> TRUE,
                         data |-> <<GameWithDetails(dbGame, participants)>>]]
  /\ UNCHANGED <<subscribed, events, gameIsLoading, gameError, selectedGame, dbGame,
                 participants, realtimeFrame>>

\* the response of one of the requests arrives:
\* set({ selectedGame: data }), set({ isLoading: false })
FetchResolved ==
  /\ \E i \in 1..Len(fetches) :
       /\ fetches[i].read
       /\ selectedGame' = fetches[i].data
       /\ fetches' = RemoveAt(fetches, i)
  /\ gameIsLoading' = FALSE
  /\ UNCHANGED <<subscribed, events, gameError, dbGame, participants, realtimeFrame>>

InitRealtime ==
  /\ LocationStoreCreated
  /\ UseLocationMounted
  /\ ProximityIdle
  /\ AuthProviderMounted
  /\ MoreCreated
  /\ measurement = NoMeasurement
  /\ GameStoreCreated
  /\ GameCreated(1)
  /\ NotSubscribed

NextRealtime ==
  \/ GameDetailMounted
  \/ GameDetailUnmounted
  \/ ParticipantsChanged
  \/ ChangeEventDelivered
  \/ GameSelected
  \/ FetchResolved

SpecRealtime == InitRealtime /\ [][NextRealtime]_vars

(* ---------------------------------------------------------------------- *)
(* C13.  While the screen is subscribed, every change event starts a       *)
(* fetchGameById, so selectedGame reflects the change: once every event    *)
(* is delivered and every request answered, selectedGame is the game and   *)
(* its participants as the backend has them.                               *)
(* ---------------------------------------------------------------------- *)
SelectedGameReflectsChanges ==
  (subscribed /\ events = <<>> /\ fetches = <<>>) =>
    selectedGame = <<GameWithDetails(dbGame, participants)>>

(* ---------------------------------------------------------------------- *)
(* AuthProvider: initializeAuth, the onAuthStateChange callback,           *)
(* handleSessionChange with its profile load, and signOut                  *)
(* ---------------------------------------------------------------------- *)
\* the session supabase hands out; it belongs to the user "ana"
Sessions == {"s1"}
UserOf(session) == "ana"

AuthEvents == {"SIGNED_IN", "TOKEN_REFRESHED", "SIGNED_OUT"}

\* what the two awaits of signOut may do
SignOutOutcomes == {"ok", "googleThrows", "supabaseThrows"}

\* isAuthenticated: !!state.session && !!state.user
IsAuthenticated(user, session) == session # "null" /\ user # "null"

\* safeSetState on one field: no update once the provider is unmounted
SafeSet(current, value) == IF isMounted THEN value ELSE current

sessionFrame == <<locationVars, hookVars, participationVars, realtimeVars, measurement,
                  currentLocation, proximityVars, isMounted, isSigningIn, signInFlows,
                  signInResults, storeOps, authIntent, showLoginModal,
                  isCreateFieldVisible, intentLog>>

\* a safeSetState that leaves isLoading as it is
SafeSetSessionKeepingLoading(user, session, userProfile, initialized) ==
  /\ authUser' = SafeSet(authUser, user)
  /\ authSession' = SafeSet(authSession, session)
  /\ authProfile' = SafeSet(authProfile, userProfile)
  /\ isInitialized' = SafeSet(isInitialized, initialized)
  /\ UNCHANGED <<authIsLoading, effectPending>>

\* safeSetState({ user, session, profile, isLoading: false, ... }); MapScreen's
\* effect has to run when isAuthenticated changes
SafeSetSession(user, session, userProfile, initialized) ==
  /\ authUser' = SafeSet(authUser, user)
  /\ authSession' = SafeSet(authSession, session)
  /\ authProfile' = SafeSet(authProfile, userProfile)
  /\ authIsLoading' = SafeSetLoading(FALSE)
  /\ isInitialized' = SafeSet(isInitialized, initialized)
  /\ effectPending' =
       IF IsAuthenticated(authUser', authSession') # IsAuthenticated(authUser, authSession)
       THEN IsAuthenticated(authUser', authSession')
       ELSE effectPending

\* initializeAuth: supabase.auth.getSession() answers
GetSessionAnswered ==
  /\ \E i \in 1..Len(sessionChanges) : \E answer \in Sessions \cup {"null", "throws"} :
       /\ sessionChanges[i] = GetSession
       /\ CASE answer = "null" ->
                 /\ SafeSetSession("null", "null", "null", TRUE)
                 /\ sessionChanges' = RemoveAt(sessionChanges, i)
            [] answer = "throws" ->
                 /\ authIsLoading' = SafeSetLoading(FALSE)
                 /\ isInitialized' = SafeSet(isInitialized, TRUE)
                 /\ sessionChanges' = RemoveAt(sessionChanges, i)
                 /\ UNCHANGED <<authUser, authSession, authProfile, effectPending>>
            [] OTHER ->
                 /\ sessionChanges' = [sessionChanges EXCEPT ![i] = LoadProfile(answer)]
                 /\ UNCHANGED <<authUser, authSession, authProfile, authIsLoading,
                                isInitialized, effectPending>>
  /\ UNCHANGED <<signOuts, signedOut, lastAuthCall, sessionFrame>>

\* the callback of supabase.auth.onAuthStateChange, up to its await
AuthStateChanged ==
  /\ isMounted
  /\ \E event \in AuthEvents : \E session \in Sessions :
       IF event = "SIGNED_OUT"
       THEN /\ SafeSetSession("null", "null", "null", isInitialized)
            /\ signedOut' = TRUE
            /\ UNCHANGED sessionChanges
       ELSE /\ Len(sessionChanges) < MaxSessionChanges
            /\ sessionChanges' = Append(sessionChanges, LoadProfile(session))
            /\ signedOut' = FALSE
            /\ UNCHANGED <<authUser, authSession, authProfile, authIsLoading,
                           isInitialized, effectPending>>
  /\ UNCHANGED <<signOuts, lastAuthCall, sessionFrame>>

\* handleSessionChange after await loadProfile(session.user): the profile, or
\* null when it could neither be loaded nor created
ProfileLoaded ==
  /\ \E i \in 1..Len(sessionChanges) :
       /\ sessionChanges[i].await = "loadProfile"
       /\ \E userProfile \in {"null", UserOf(sessionChanges[i].session)} :
            SafeSetSession(UserOf(sessionChanges[i].session), sessionChanges[i].session,
                           userProfile, TRUE)
       /\ sessionChanges' = RemoveAt(sessionChanges, i)
  /\ UNCHANGED <<signOuts, signedOut, lastAuthCall, sessionFrame>>

\* signOut up to its first await
SignOutCalled ==
  /\ signOuts < MaxSignOuts
  /\ signOuts' = signOuts + 1
  /\ authIsLoading' = SafeSetLoading(TRUE)
  /\ UNCHANGED <<authUser, authSession, authProfile, isInitialized, effectPending,
                 sessionChanges, signedOut, lastAuthCall, sessionFrame>>

\* signOut after its awaits: catch, and finally the safeSetState
SignOutReturned ==
  /\ signOuts > 0
  /\ signOuts' = signOuts - 1
  /\ \E outcome \in SignOutOutcomes :
       lastAuthCall' = [NoAuthCall EXCEPT !.fn = "signOut", !.result = outcome]
  /\ SafeSetSession("null", "null", "null", isInitialized)
  /\ signedOut' = TRUE
  /\ UNCHANGED <<sessionChanges, sessionFrame>>

(* ---------------------------------------------------------------------- *)
(* The auth intent: setAuthIntent / consumeAuthIntent of AuthProvider,     *)
(* checkAuth and requireAuth of useRequireAuth, and their callers in       *)
(* MapScreen                                                               *)
(* ---------------------------------------------------------------------- *)
\* the intents a caller may pass; "null" stands for no intent
Intents == {"null", "add_field", "join_game"}

\* what the protected action may do
ActionOutcomes == {"returns", "throws"}

intentFrame == <<locationVars, hookVars, participationVars, realtimeVars, measurement,
                 currentLocation, proximityVars, authVars, sessionVars, storeOps>>

AuthCall(fn, authenticated, intent, result, ran) ==
  [fn |-> fn, authenticated |-> authenticated, intent |-> intent, result |-> result,
   ran |-> ran]

\* an unauthenticated branch that runs the action all the same
AuthRequiredRunning(fn, intent) ==
  /\ authIntent' = IF intent # "null" THEN intent ELSE authIntent
  /\ intentLog' = IF intent = "add_field"
                  THEN [intentLog EXCEPT !.stored = @ + 1] ELSE intentLog
  /\ showLoginModal' = TRUE
  /\ lastAuthCall' = AuthCall(fn, FALSE, intent, "authRequired", 1)

\* the unauthenticated branch of checkAuth and requireAuth:
\* if (intent) setAuthIntent(intent); setShowLoginModal(true)
AuthRequired(fn, intent) ==
  /\ authIntent' = IF intent # "null" THEN intent ELSE authIntent
  /\ intentLog' = IF intent = "add_field"
                  THEN [intentLog EXCEPT !.stored = @ + 1] ELSE intentLog
  /\ showLoginModal' = TRUE
  /\ lastAuthCall' = AuthCall(fn, FALSE, intent, "authRequired", 0)

\* requireAuth(action, intent)
RequireAuthCalled ==
  /\ \E intent \in Intents : \E outcome \in ActionOutcomes :
       IF ~IsAuthenticated(authUser, authSession)
       THEN /\ intent = "add_field" => intentLog.stored < MaxIntents
            /\ AuthRequired("requireAuth", intent)
       ELSE /\ lastAuthCall' =
                 AuthCall("requireAuth", TRUE, intent,
                          IF outcome = "returns" THEN "success" ELSE "failure", 1)
            /\ UNCHANGED <<authIntent, intentLog, showLoginModal>>
  /\ UNCHANGED <<isCreateFieldVisible, effectPending, intentFrame>>

\* MapScreen.handleOpenCreateField: checkAuth({ type: 'add_field' }), and
\* handleSignInFromDrawer: checkAuth(null)
CheckAuthCalled ==
  /\ \E intent \in {"null", "add_field"} :
       IF ~IsAuthenticated(authUser, authSession)
       THEN /\ intent = "add_field" => intentLog.stored < MaxIntents
            /\ AuthRequired("checkAuth", intent)
            /\ UNCHANGED isCreateFieldVisible
       ELSE /\ lastAuthCall' = AuthCall("checkAuth", TRUE, intent, "true", 0)
            /\ isCreateFieldVisible' = (intent = "add_field" \/ isCreateFieldVisible)
            /\ UNCHANGED <<authIntent, intentLog, showLoginModal>>
  /\ UNCHANGED <<effectPending, intentFrame>>

\* a consumeAuthIntent that leaves the intent in the ref
ConsumedKeepingIntent ==
  /\ lastAuthCall' = AuthCall("consumeAuthIntent", IsAuthenticated(authUser, authSession),
                              authIntent, authIntent, 0)
  /\ UNCHANGED authIntent
  /\ isCreateFieldVisible' = (authIntent = "add_field" \/ isCreateFieldVisible)
  /\ intentLog' = IF authIntent = "add_field"
                  THEN [intentLog EXCEPT !.opened = @ + 1] ELSE intentLog

\* const intent = consumeAuthIntent();
\* if (intent?.type === 'add_field') setIsCreateFieldVisible(true)
Consumed ==
  /\ lastAuthCall' = AuthCall("consumeAuthIntent", IsAuthenticated(authUser, authSession),
                              authIntent, authIntent, 0)
  /\ authIntent' = "null"
  /\ isCreateFieldVisible' = (authIntent = "add_field" \/ isCreateFieldVisible)
  /\ intentLog' = IF authIntent = "add_field"
                  THEN [intentLog EXCEPT !.opened = @ + 1] ELSE intentLog

\* MapScreen's effect on [isAuthenticated, consumeAuthIntent]
IntentEffectRan ==
  /\ effectPending
  /\ effectPending' = FALSE
  /\ IF IsAuthenticated(authUser, authSession)
     THEN Consumed
     ELSE UNCHANGED <<lastAuthCall, authIntent, isCreateFieldVisible, intentLog>>
  /\ UNCHANGED <<showLoginModal, intentFrame>>

\* LoginModal.handleSuccess: onClose(), then MapScreen.handleLoginSuccess
HandleLoginSuccess ==
  /\ showLoginModal
  /\ showLoginModal' = FALSE
  /\ Consumed
  /\ UNCHANGED <<effectPending, intentFrame>>

\* closeLoginModal (skip, back) and handleCloseCreateField
ModalClosed ==
  /\ showLoginModal \/ isCreateFieldVisible
  /\ \/ showLoginModal' = FALSE /\ UNCHANGED isCreateFieldVisible
     \/ isCreateFieldVisible' = FALSE /\ UNCHANGED showLoginModal
  /\ showLoginModal' # showLoginModal \/ isCreateFieldVisible' # isCreateFieldVisible
  /\ UNCHANGED <<authIntent, intentLog, lastAuthCall, effectPending, intentFrame>>

InitSession ==
  /\ LocationStoreCreated
  /\ UseLocationMounted
  /\ ProximityIdle
  /\ GameStoreCreated
  /\ GameCreated(1)
  /\ NotSubscribed
  /\ measurement = NoMeasurement
  /\ AuthProviderMounted
  /\ MoreCreated

NextSession ==
  \/ GetSessionAnswered
  \/ AuthStateChanged
  \/ ProfileLoaded
  \/ SignOutCalled
  \/ SignOutReturned
  \/ AuthProviderUnmounted

SpecSession == InitSession /\ [][NextSession]_vars

\* MapScreen with the session changing under it
NextIntent ==
  \/ AuthStateChanged
  \/ ProfileLoaded
  \/ RequireAuthCalled
  \/ CheckAuthCalled
  \/ IntentEffectRan
  \/ HandleLoginSuccess
  \/ ModalClosed

SpecIntent == InitSession /\ [][NextIntent]_vars

(* ---------------------------------------------------------------------- *)
(* C21.  Once the provider has handled a SIGNED_OUT event or signOut has   *)
(* completed, user, session and profile stay null until a later SIGNED_IN  *)
(* or TOKEN_REFRESHED event arrives, also while a handleSessionChange      *)
(* started before is still awaiting its profile load.                      *)
(* ---------------------------------------------------------------------- *)
SignedOutStaysNull ==
  (isMounted /\ signedOut) =>
    /\ authUser = "null"
    /\ authSession = "null"
    /\ authProfile = "null"

(* ---------------------------------------------------------------------- *)
(* C22.  When signOut returns in a mounted provider, user, session and     *)
(* profile are null and isLoading is false, whether the Google sign-out    *)
(* or the Supabase sign-out threw or not.                                  *)
(* ---------------------------------------------------------------------- *)
SignOutLeavesSignedOut ==
  [][(signOuts' < signOuts /\ isMounted) =>
       /\ authUser' = "null"
       /\ authSession' = "null"
       /\ authProfile' = "null"
       /\ authIsLoading' = FALSE
    ]_vars

\* a signOut whose Supabase sign-out threw has returned to a provider that
\* had loaded a session
SignOutLeavesSignedOutWitness ==
  /\ lastAuthCall.fn = "signOut"
  /\ lastAuthCall.result = "supabaseThrows"
  /\ isMounted
  /\ isInitialized
  /\ signOuts = 0
  /\ authUser = "null"
  /\ authIsLoading = FALSE

(* ---------------------------------------------------------------------- *)
(* C23.  A stored auth intent is executed at most once: consumeAuthIntent  *)
(* returns the intent last set and clears it, so the create-field screen   *)
(* is opened by an intent at most once per stored add_field intent, by     *)
(* the effect or by handleLoginSuccess, and a consume with no pending      *)
(* intent returns null.                                                    *)
(* ---------------------------------------------------------------------- *)
IntentConsumedOnce ==
  [][/\ intentLog'.opened <= intentLog'.stored
     /\ (lastAuthCall' # lastAuthCall /\ lastAuthCall'.fn = "consumeAuthIntent") =>
          /\ lastAuthCall'.result = authIntent
          /\ authIntent' = "null"
     /\ intentLog'.opened > intentLog.opened =>
          /\ authIntent = "add_field"
          /\ authIntent' = "null"
          /\ isCreateFieldVisible'
    ]_vars

\* one add_field intent was stored, one consumer opened the create-field
\* screen with it and the other consumer got null
IntentConsumedOnceWitness ==
  /\ intentLog = [stored |-> 1, opened |-> 1]
  /\ lastAuthCall.fn = "consumeAuthIntent"
  /\ lastAuthCall.result = "null"
  /\ authIntent = "null"
  /\ isCreateFieldVisible

(* ---------------------------------------------------------------------- *)
(* C24.  requireAuth never runs the protected action while isAuthenticated *)
(* is false: it stores the given intent, sets showLoginModal and returns   *)
(* { success: false, authRequired: true }; while isAuthenticated is true   *)
(* it runs the action exactly once and returns success true, or success    *)
(* false if the action throws.                                             *)
(* ---------------------------------------------------------------------- *)
RequireAuthGuardsAction ==
  [][(lastAuthCall' # lastAuthCall /\ lastAuthCall'.fn = "requireAuth") =>
       IF IsAuthenticated(authUser, authSession)
       THEN /\ lastAuthCall'.ran = 1
            /\ lastAuthCall'.result \in {"success", "failure"}
            /\ UNCHANGED <<authIntent, showLoginModal>>
       ELSE /\ lastAuthCall'.ran = 0
            /\ lastAuthCall'.result = "authRequired"
            /\ showLoginModal'
            /\ lastAuthCall'.intent # "null" => authIntent' = lastAuthCall'.intent
    ]_vars

\* after a sign-out, requireAuth was called with an intent and asked for a
\* login
RequireAuthGuardsActionWitness ==
  /\ signedOut
  /\ lastAuthCall = AuthCall("requireAuth", FALSE, "join_game", "authRequired", 0)
  /\ showLoginModal
  /\ authIntent = "join_game"
  /\ ~IsAuthenticated(authUser, authSession)

(* ---------------------------------------------------------------------- *)
(* gameStore: the isLoading and error fields under operations that         *)
(* overlap.  An operation is followed through its awaits: its own request  *)
(* and the refresh fetches it awaits one after the other.  The end of a    *)
(* nested fetch and what the operation does next happen without another    *)
(* callback in between, so they are one step.  The data the operations     *)
(* fetch is followed in the specifications above.                          *)
(* ---------------------------------------------------------------------- *)
StoreOperations ==
  {"fetchNearbyGames", "fetchMyGames", "fetchGameById", "createGame", "updateGame",
   "deleteGame", "joinGame", "leaveGame"}

\* the awaits of an operation, in order
AwaitsOf(op) ==
  CASE op = "createGame" -> <<"insert", "fetchNearbyGames", "fetchMyGames">>
    [] op = "updateGame" -> <<"update", "fetchGameById", "fetchMyGames">>
    [] op = "deleteGame" -> <<"delete", "fetchMyGames">>
    [] op = "joinGame" -> <<"insert", "fetchGameById", "fetchMyGames">>
    [] op = "leaveGame" -> <<"delete", "fetchGameById", "fetchMyGames">>
    [] OTHER -> <<op>>

\* const profile = useAuthStore.getState().profile; if (!profile) return;
NeedsProfile(op) == op \in {"fetchMyGames", "joinGame", "leaveGame"}

\* the awaits left once the next one is reached: a nested fetchMyGames
\* without a profile returns at once
Reached(awaits) ==
  IF awaits # <<>> /\ Head(awaits) = "fetchMyGames" /\ profile = "none"
  THEN Tail(awaits) ELSE awaits

loadingFrame == <<locationVars, hookVars, realtimeVars, authVars, measurement,
                  sessionVars, intentVars, currentLocation, engine, db, heap, fetched,
                  last, repeated, playerVars, courtVars, games, nearbyGames,
                  nearbyFields, profile, selectedGame, myGames, dbGame, participants,
                  lastOp>>

\* an operation up to its first await: set({ isLoading: true, error: null })
StoreOperationCalled ==
  /\ Len(storeOps) < MaxStoreOps
  /\ \E op \in StoreOperations :
       /\ NeedsProfile(op) => profile # "none"
       /\ storeOps' = Append(storeOps, AwaitsOf(op))
  /\ gameIsLoading' = TRUE
  /\ gameError' = "null"
  /\ UNCHANGED loadingFrame

\* the request an operation waits for is answered.  An error of the
\* operation's own request goes to its catch and finally; a nested fetch
\* catches its own error, ends with set({ isLoading: false }), and the
\* operation goes on: the next fetch starts with
\* set({ isLoading: true, error: null }), or the operation's finally runs
StoreAwaitAnswered ==
  /\ \E i \in 1..Len(storeOps) : \E answer \in {"ok", "error"} :
       IF answer = "error" /\ Head(storeOps[i]) \in {"insert", "update", "delete"}
       THEN /\ storeOps' = RemoveAt(storeOps, i)
            /\ gameError' = "error"
            /\ gameIsLoading' = FALSE
       ELSE IF Reached(Tail(storeOps[i])) = <<>>
       THEN /\ storeOps' = RemoveAt(storeOps, i)
            /\ gameError' = IF answer = "error" THEN "error" ELSE gameError
            /\ gameIsLoading' = FALSE
       ELSE /\ storeOps' = [storeOps EXCEPT ![i] = Reached(Tail(storeOps[i]))]
            /\ gameError' = "null"
            /\ gameIsLoading' = TRUE
  /\ UNCHANGED loadingFrame

NextLoading ==
  \/ SetProfile
  \/ StoreOperationCalled
  \/ StoreAwaitAnswered

SpecLoading == InitSession /\ [][NextLoading]_vars

(* ---------------------------------------------------------------------- *)
(* C25.  In gameStore, isLoading is false only when no operation of the    *)
(* store is in flight: it is true during createGame, updateGame, joinGame, *)
(* leaveGame and deleteGame with their nested refresh fetches, and while   *)
(* any of several overlapping fetches is pending.                          *)
(* ---------------------------------------------------------------------- *)
LoadingWhileInFlight == storeOps # <<>> => gameIsLoading
====
